---------------------------- MODULE Spec2Model ----------------------------
(***************************************************************************)
(* NeuroDrive: track geometry (tile grid, road membership) and the         *)
(* centreline compiler (grid traversal, polyline, arc lengths).            *)
(*                                                                         *)
(* f32 values are fixed-point integers: Scale model units per pixel.  A    *)
(* Vec2 is a pair <<x, y>>.  World Y grows upward, grid rows grow          *)
(* downward, exactly as in src/maps/grid.rs.                               *)
(***************************************************************************)
EXTENDS Integers, Sequences, FiniteSets, TLC

VARIABLES
    grid,        \* TrackGrid: [rows, cols, tiles, tile_size, origin]
    query,       \* last is_road_at call: <<>> or [world, road]
    start_cell,  \* build_closed_loop argument (row, col)
    start_dir,   \* build_closed_loop argument
    pc,          \* position inside build_closed_loop
    cells,       \* traverse_cells: Vec<(usize, usize)>
    dirs,        \* traverse_cells: Vec<GridDir>
    visited,     \* traverse_cells: HashSet<(usize, usize)>
    current,     \* traverse_cells: current cell
    incoming,    \* traverse_cells: direction we arrived from
    loop_i,      \* index of the `for i in 0..n` loop being run
    points,      \* build_polyline_points: Vec<Vec2>
    cumulative,  \* compute_lengths: Vec<f32>
    total,       \* compute_lengths: running total
    result,      \* Result of build_closed_loop: [kind, ...]
    centerline,  \* TrackCenterline: [points, cumulative_lengths, total_length]
    pos,         \* the position handed to TrackCenterline::project
    best,        \* project: the running best CenterlineProjection
    progress,    \* TrackProgress component of the car
    pose,        \* where along the centreline the car was placed
    ray,         \* one raycast_to_road_boundary call: arguments, locals, result
    sensors,     \* SensorReadings component of the car
    observation, \* ObservationVector component of the car
    car,         \* one step_car_dynamics call: arguments and resulting state
    entity,      \* the car entity: Transform (translation, rotation) and Car
    action_state,     \* ActionState resource: desired and applied CarAction
    collision_events, \* Messages<CollisionEvent> and its two readers' cursors
    episode_state,    \* EpisodeState resource
    moving_averages,  \* EpisodeMovingAverages resource
    sim          \* FixedUpdate: ticks run, systems run in this tick, what they read

vars == <<grid, query, start_cell, start_dir, pc, cells, dirs, visited,
          current, incoming, loop_i, points, cumulative, total, result,
          centerline, pos, best, progress, pose, ray, sensors, observation,
          car, entity, action_state, collision_events, episode_state,
          moving_averages, sim>>

projVars == <<pos, best, progress, pose>>
senseVars == <<ray, sensors, observation>>
tickVars == <<entity, action_state, collision_events, episode_state,
              moving_averages, sim>>
auxVars == <<projVars, senseVars, car, tickVars>>

traverseVars == <<cells, dirs, visited, current, incoming>>
lengthVars == <<cumulative, total>>
buildVars == <<start_cell, start_dir, pc, traverseVars, loop_i, points,
               lengthVars, result, centerline>>

-----------------------------------------------------------------------------
(* Number representation and bounds                                        *)

\* Fixed-point resolution of an f32 world coordinate: model units per pixel.
Scale == 100

\* How many query-lattice steps outside the grid rectangle points are drawn.
Reach == 2

\* Number of cells of a base layout that may be replaced by an arbitrary tile.
MaxEdits == 1

\* Query points lie on the half-pixel lattice (so that WALL_THICKNESS / 2 and
\* every cell edge are lattice values).
LatticeStep == Scale \div 2

None == <<>>

Abs(a) == IF a < 0 THEN 0 - a ELSE a

X(v) == v[1]
Y(v) == v[2]

VAdd(a, b) == <<a[1] + b[1], a[2] + b[2]>>
VSub(a, b) == <<a[1] - b[1], a[2] - b[2]>>

\* Vec2::length_squared of (a - b)
DistSq(a, b) == (a[1] - b[1]) * (a[1] - b[1]) + (a[2] - b[2]) * (a[2] - b[2])

-----------------------------------------------------------------------------
(* maps/parts/mod.rs : TilePart                                            *)

TilePart ==
    {"Empty", "StraightH", "StraightV",
     "CornerNW", "CornerNE", "CornerSW", "CornerSE",
     "TJunctionN", "TJunctionS", "TJunctionE", "TJunctionW",
     "Crossroads", "SpawnPoint"}

is_road(tile) == tile # "Empty"

\* (north, south, east, west)
open_edges(tile) ==
    CASE tile = "Empty"      -> [n |-> FALSE, s |-> FALSE, e |-> FALSE, w |-> FALSE]
      [] tile = "StraightH"  -> [n |-> FALSE, s |-> FALSE, e |-> TRUE,  w |-> TRUE ]
      [] tile = "SpawnPoint" -> [n |-> FALSE, s |-> FALSE, e |-> TRUE,  w |-> TRUE ]
      [] tile = "StraightV"  -> [n |-> TRUE,  s |-> TRUE,  e |-> FALSE, w |-> FALSE]
      [] tile = "CornerNW"   -> [n |-> FALSE, s |-> TRUE,  e |-> TRUE,  w |-> FALSE]
      [] tile = "CornerNE"   -> [n |-> FALSE, s |-> TRUE,  e |-> FALSE, w |-> TRUE ]
      [] tile = "CornerSW"   -> [n |-> TRUE,  s |-> FALSE, e |-> TRUE,  w |-> FALSE]
      [] tile = "CornerSE"   -> [n |-> TRUE,  s |-> FALSE, e |-> FALSE, w |-> TRUE ]
      [] tile = "TJunctionN" -> [n |-> FALSE, s |-> TRUE,  e |-> TRUE,  w |-> TRUE ]
      [] tile = "TJunctionS" -> [n |-> TRUE,  s |-> FALSE, e |-> TRUE,  w |-> TRUE ]
      [] tile = "TJunctionE" -> [n |-> TRUE,  s |-> TRUE,  e |-> FALSE, w |-> TRUE ]
      [] tile = "TJunctionW" -> [n |-> TRUE,  s |-> TRUE,  e |-> TRUE,  w |-> FALSE]
      [] tile = "Crossroads" -> [n |-> TRUE,  s |-> TRUE,  e |-> TRUE,  w |-> TRUE ]

is_corner(tile) == tile \in {"CornerNW", "CornerNE", "CornerSW", "CornerSE"}

-----------------------------------------------------------------------------
(* maps/grid.rs : TrackGrid                                                *)

\* 5.0 px
WALL_THICKNESS == 5 * Scale

\* TrackGrid::new.  tiles is indexed tiles[row][col], both from 0.
TrackGridNew(tiles, tile_size, origin) ==
    [tiles |-> tiles, tile_size |-> tile_size, origin |-> origin]

\* usize range 0 .. n-1 of a Vec of length n
Indices(n) == 0 .. (n - 1)

rows(g) == Cardinality(DOMAIN g.tiles)

cols(g) == IF rows(g) = 0 THEN 0 ELSE Cardinality(DOMAIN g.tiles[0])

tile_at(g, row, col) ==
    IF row \in Indices(rows(g)) /\ col \in DOMAIN g.tiles[row]
    THEN g.tiles[row][col]
    ELSE "Empty"

cell_center(g, row, col) ==
    << X(g.origin) + col * g.tile_size + g.tile_size \div 2,
       Y(g.origin) - row * g.tile_size - g.tile_size \div 2 >>

\* `(rel / tile_size) as usize`: the quotient truncated toward zero, a
\* negative quotient saturating to 0.
FloatDivAsUsize(rel, tile_size) == IF rel < 0 THEN 0 ELSE rel \div tile_size

\* world_to_cell without the early return on a negative relative coordinate.
world_to_cell_nocheck(g, world) ==
    LET rel_x == X(world) - X(g.origin)
        rel_y == Y(g.origin) - Y(world)
        col == FloatDivAsUsize(rel_x, g.tile_size)
        row == FloatDivAsUsize(rel_y, g.tile_size)
    IN  IF row >= rows(g) \/ col >= cols(g) THEN None ELSE <<row, col>>

world_to_cell(g, world) ==
    LET rel_x == X(world) - X(g.origin)
        rel_y == Y(g.origin) - Y(world)
        col == FloatDivAsUsize(rel_x, g.tile_size)
        row == FloatDivAsUsize(rel_y, g.tile_size)
    IN  IF rel_x < 0 \/ rel_y < 0 THEN None
        ELSE IF row >= rows(g) \/ col >= cols(g) THEN None
        ELSE <<row, col>>

\* A plausible slip: CornerNW and CornerNE given each other's arc centre.
corner_arc_params_swapped(tile, center, half) ==
    CASE tile = "CornerNW" -> <<X(center) - half, Y(center) - half>>
      [] tile = "CornerNE" -> <<X(center) + half, Y(center) - half>>
      [] tile = "CornerSW" -> <<X(center) + half, Y(center) + half>>
      [] tile = "CornerSE" -> <<X(center) - half, Y(center) + half>>

\* The arc centre of a corner tile (the start/end angles are rendering only).
corner_arc_params(tile, center, half) ==
    CASE tile = "CornerNW" -> <<X(center) + half, Y(center) - half>>
      [] tile = "CornerNE" -> <<X(center) - half, Y(center) - half>>
      [] tile = "CornerSW" -> <<X(center) + half, Y(center) + half>>
      [] tile = "CornerSE" -> <<X(center) - half, Y(center) + half>>

\* world.distance(c) <= r for r >= 0.  The f32 comparison agrees with the
\* comparison of the squares on every lattice value of the model.
DistanceLe(world, c, r) == DistSq(world, c) <= r * r

\* is_road_at with the corner radius not inset by the wall margin.
is_road_at_noinset(g, world) ==
    LET cell == world_to_cell(g, world) IN
    IF cell = None THEN FALSE
    ELSE
      LET row == cell[1]
          col == cell[2]
          tile == tile_at(g, row, col)
          center == cell_center(g, row, col)
          half == g.tile_size \div 2
          margin == WALL_THICKNESS \div 2
          open == open_edges(tile)
      IN  IF ~is_road(tile) THEN FALSE
          ELSE IF is_corner(tile)
          THEN DistanceLe(world, corner_arc_params(tile, center, half),
                          g.tile_size)
          ELSE IF ~open.n /\ Y(world) > Y(center) + half - margin THEN FALSE
          ELSE IF ~open.s /\ Y(world) < Y(center) - half + margin THEN FALSE
          ELSE IF ~open.e /\ X(world) > X(center) + half - margin THEN FALSE
          ELSE IF ~open.w /\ X(world) < X(center) - half + margin THEN FALSE
          ELSE TRUE

\* is_road_at with `>=` in place of `>` on the closed-edge tests.
is_road_at_strict(g, world) ==
    LET cell == world_to_cell(g, world) IN
    IF cell = None THEN FALSE
    ELSE
      LET row == cell[1]
          col == cell[2]
          tile == tile_at(g, row, col)
          center == cell_center(g, row, col)
          half == g.tile_size \div 2
          margin == WALL_THICKNESS \div 2
          open == open_edges(tile)
      IN  IF ~is_road(tile) THEN FALSE
          ELSE IF is_corner(tile)
          THEN DistanceLe(world, corner_arc_params(tile, center, half),
                          g.tile_size - margin)
          ELSE IF ~open.n /\ Y(world) >= Y(center) + half - margin THEN FALSE
          ELSE IF ~open.s /\ Y(world) <= Y(center) - half + margin THEN FALSE
          ELSE IF ~open.e /\ X(world) >= X(center) + half - margin THEN FALSE
          ELSE IF ~open.w /\ X(world) <= X(center) - half + margin THEN FALSE
          ELSE TRUE

is_road_at(g, world) ==
    LET cell == world_to_cell(g, world) IN
    IF cell = None THEN FALSE
    ELSE
      LET row == cell[1]
          col == cell[2]
          tile == tile_at(g, row, col)
          center == cell_center(g, row, col)
          half == g.tile_size \div 2
          margin == WALL_THICKNESS \div 2
          open == open_edges(tile)
      IN  IF ~is_road(tile) THEN FALSE
          ELSE IF is_corner(tile)
          THEN DistanceLe(world, corner_arc_params(tile, center, half),
                          g.tile_size - margin)
          ELSE IF ~open.n /\ Y(world) > Y(center) + half - margin THEN FALSE
          ELSE IF ~open.s /\ Y(world) < Y(center) - half + margin THEN FALSE
          ELSE IF ~open.e /\ X(world) > X(center) + half - margin THEN FALSE
          ELSE IF ~open.w /\ X(world) < X(center) - half + margin THEN FALSE
          ELSE TRUE

-----------------------------------------------------------------------------
(* maps/monaco.rs : how a grid is placed in the world                      *)

\* spawn_track centres the grid on the world origin.
CentredOrigin(nrows, ncols, tile_size) ==
    << 0 - (ncols * tile_size) \div 2, (nrows * tile_size) \div 2 >>

\* A grid from a sequence of rows (each a sequence of tiles), as a
\* zero-indexed Vec<Vec<TilePart>>.
TilesOf(rowSeq) ==
    [r \in Indices(Len(rowSeq)) |->
        [c \in Indices(Len(rowSeq[r + 1])) |-> rowSeq[r + 1][c + 1]]]

MakeGrid(rowSeq, tile_size) ==
    TrackGridNew(TilesOf(rowSeq), tile_size,
                 CentredOrigin(Len(rowSeq), Len(rowSeq[1]), tile_size))

-----------------------------------------------------------------------------
(* maps/centerline.rs : grid traversal                                     *)

CENTERLINE_ARC_SAMPLES == 8

GridDir == {"North", "South", "East", "West"}

opposite(dir) ==
    CASE dir = "North" -> "South"
      [] dir = "South" -> "North"
      [] dir = "East"  -> "West"
      [] dir = "West"  -> "East"

\* (d_row, d_col)
delta(dir) ==
    CASE dir = "North" -> <<0 - 1, 0>>
      [] dir = "South" -> <<1, 0>>
      [] dir = "East"  -> <<0, 1>>
      [] dir = "West"  -> <<0, 0 - 1>>

\* CenterlineBuildError values and the Ok marker of the Result.
InvalidStartCell(row, col) == [kind |-> "InvalidStartCell", row |-> row, col |-> col]
DeadEnd(row, col) == [kind |-> "DeadEnd", row |-> row, col |-> col]
AmbiguousBranch(row, col, options) ==
    [kind |-> "AmbiguousBranch", row |-> row, col |-> col, options |-> options]
NotClosedLoop == [kind |-> "NotClosedLoop"]
TooShort == [kind |-> "TooShort"]
Ok == [kind |-> "Ok"]

\* usize::checked_add_signed on both coordinates: None below zero.
step_cell(cell, dir) ==
    LET next_row == cell[1] + delta(dir)[1]
        next_col == cell[2] + delta(dir)[2]
    IN  IF next_row < 0 \/ next_col < 0 THEN None ELSE <<next_row, next_col>>

\* The options vector before `retain`: open directions in the order N, S, E, W.
OpenOptions(tile) ==
    LET open == open_edges(tile)
        keep(d) == \/ d = "North" /\ open.n
                   \/ d = "South" /\ open.s
                   \/ d = "East"  /\ open.e
                   \/ d = "West"  /\ open.w
    IN  SelectSeq(<<"North", "South", "East", "West">>, keep)

\* choose_next_dir that forgets to drop the direction it came from.
choose_next_dir_noretain(g, cell, inc) ==
    LET options == OpenOptions(tile_at(g, cell[1], cell[2])) IN
    IF Len(options) = 1 THEN [ok |-> TRUE, dir |-> options[1]]
    ELSE IF Len(options) = 0 THEN [ok |-> FALSE, err |-> DeadEnd(cell[1], cell[2])]
    ELSE [ok |-> FALSE, err |-> AmbiguousBranch(cell[1], cell[2], options)]

\* Result<GridDir, CenterlineBuildError> as [ok, dir] or [ok, err].
choose_next_dir(g, cell, inc) ==
    LET notIncoming(d) == d # inc
        options == SelectSeq(OpenOptions(tile_at(g, cell[1], cell[2])), notIncoming)
    IN  IF Len(options) = 1 THEN [ok |-> TRUE, dir |-> options[1]]
        ELSE IF Len(options) = 0 THEN [ok |-> FALSE, err |-> DeadEnd(cell[1], cell[2])]
        ELSE [ok |-> FALSE, err |-> AmbiguousBranch(cell[1], cell[2], options)]

\* A visited set that never reports a cell as already present.
HashSetInsert_always(set, x) == TRUE

\* HashSet::insert returns true when the value was not yet present.
HashSetInsert(set, x) == x \notin set

-----------------------------------------------------------------------------
(* maps/centerline.rs : polyline synthesis and arc lengths                 *)
(*                                                                         *)
(* Angles are in binary degrees (256 to the turn), so a quarter turn is    *)
(* 64 and one arc sample step is 64 / CENTERLINE_ARC_SAMPLES = 8.          *)

PI == 128

\* 1000 * cos(k * 2 * pi / 256) for k = 0 .. 64, rounded.
CosQuarter ==
    << 1000, 1000, 999, 997, 995, 992, 989, 985, 981, 976, 970, 964, 957, 950,
       942, 933, 924, 914, 904, 893, 882, 870, 858, 845, 831, 818, 803, 788,
       773, 757, 741, 724, 707, 690, 672, 653, 634, 615, 596, 576, 556, 535,
       514, 493, 471, 450, 428, 405, 383, 360, 337, 314, 290, 267, 243, 219,
       195, 171, 147, 122, 98, 74, 49, 25, 0 >>

\* f32::cos, scaled by 1000
Cos(a) ==
    LET m == a % (2 * PI) IN
    IF m <= 64 THEN CosQuarter[m + 1]
    ELSE IF m <= 128 THEN 0 - CosQuarter[128 - m + 1]
    ELSE IF m <= 192 THEN 0 - CosQuarter[m - 128 + 1]
    ELSE CosQuarter[256 - m + 1]

\* f32::sin, scaled by 1000
Sin(a) == Cos(a - 64)

\* f32::atan2(y, x) on the vectors that occur: from a cell corner to the
\* midpoint of one of the cell's edges (components 0, h or 2h in size).
Atan2(y, x) ==
    LET b == CASE y = 0 \/ x = 0 -> 0
               [] Abs(y) = 2 * Abs(x) -> 45
               [] Abs(x) = 2 * Abs(y) -> 19
    IN  CASE y = 0 /\ x > 0 -> 0
          [] y = 0 /\ x < 0 -> PI
          [] x = 0 /\ y > 0 -> 64
          [] x = 0 /\ y < 0 -> 0 - 64
          [] x > 0 /\ y > 0 -> b
          [] x < 0 /\ y > 0 -> PI - b
          [] x < 0 /\ y < 0 -> b - PI
          [] x > 0 /\ y < 0 -> 0 - b

RECURSIVE WrapUp(_)
WrapUp(a) == IF a <= 0 - PI THEN WrapUp(a + 2 * PI) ELSE a

RECURSIVE WrapDown(_)
WrapDown(a) == IF a > PI THEN WrapDown(a - 2 * PI) ELSE a

wrap_to_pi(a) == WrapDown(WrapUp(a))

\* Division rounding to the nearest integer (the f32 product, to the model's
\* resolution).
RoundDiv(a, b) == IF a >= 0 THEN (a + b \div 2) \div b
                  ELSE 0 - (((0 - a) + b \div 2) \div b)

\* Significand width of the model's floats.  Arc lengths are the largest
\* f32 values the program keeps (thousands of pixels on the shipped track,
\* where one ulp is many ulps of a position); the short significand puts
\* the arc lengths of the small grids in the same relation to positions.
MantissaBits == 11

\* The spacing of the floats around v >= 0.
RECURSIVE F32Ulp(_)
F32Ulp(v) == IF v < 2 ^ MantissaBits THEN 1 ELSE 2 * F32Ulp(v \div 2)

\* The float nearest to v >= 0, ties to the even significand: the rounding
\* of an f32 sum.
F32(v) ==
    LET u == F32Ulp(v)
        q == v \div u
        r == v % u
    IN  IF 2 * r > u \/ (2 * r = u /\ q % 2 = 1) THEN (q + 1) * u ELSE q * u

RECURSIVE SqrtSearch(_, _, _)
SqrtSearch(n, lo, hi) ==
    IF lo >= hi THEN lo
    ELSE LET mid == (lo + hi + 1) \div 2 IN
         IF mid * mid <= n THEN SqrtSearch(n, mid, hi)
         ELSE SqrtSearch(n, lo, mid - 1)

\* f32::sqrt to the model's resolution: the largest r with r * r <= n.
Sqrt(n) == SqrtSearch(n, 0, IF n > 46340 THEN 46340 ELSE n)

\* Vec2::distance
Distance(a, b) == Sqrt(DistSq(a, b))

\* `last.distance(p) < 1e-3`: below the fixed-point resolution, so only a
\* distance of zero units qualifies.
Within1e3(a, b) == DistSq(a, b) = 0

dir_unit(dir) ==
    CASE dir = "North" -> <<0, 1>>
      [] dir = "South" -> <<0, 0 - 1>>
      [] dir = "East"  -> <<1, 0>>
      [] dir = "West"  -> <<0 - 1, 0>>

push_unique(pts, p) ==
    IF pts # <<>> /\ Within1e3(pts[Len(pts)], p)
    THEN pts
    ELSE Append(pts, p)

corner_arc_center(tile, cell_ctr, half) ==
    IF is_corner(tile) THEN corner_arc_params(tile, cell_ctr, half) ELSE cell_ctr

RECURSIVE ArcSamplesFrom(_, _, _, _, _, _)
ArcSamplesFrom(pts, center, radius, a0, dlt, i) ==
    IF i > CENTERLINE_ARC_SAMPLES THEN pts
    ELSE LET a == a0 + (dlt * i) \div CENTERLINE_ARC_SAMPLES
             p == << X(center) + RoundDiv(Cos(a) * radius, 1000),
                     Y(center) + RoundDiv(Sin(a) * radius, 1000) >>
         IN  ArcSamplesFrom(push_unique(pts, p), center, radius, a0, dlt, i + 1)

push_corner_arc_samples(pts, center, radius, entry, exit) ==
    LET a0 == Atan2(Y(entry) - Y(center), X(entry) - X(center))
        a1 == Atan2(Y(exit) - Y(center), X(exit) - X(center))
        dlt == wrap_to_pi(a1 - a0)
    IN  ArcSamplesFrom(pts, center, radius, a0, dlt, 1)

\* The body of the `for i in 0..n` loop of build_polyline_points, for index
\* i; cells and dirs are 1-indexed sequences here, so cell i of the code is
\* cs[i + 1].
polyline_cell(g, cs, ds, pts, i) ==
    LET n == Len(cs)
        half == g.tile_size \div 2
        cell == cs[i + 1]
        tile == tile_at(g, cell[1], cell[2])
        center == cell_center(g, cell[1], cell[2])
        prev_dir == IF i = 0 THEN ds[n] ELSE ds[i]
        entry_dir == opposite(prev_dir)
        exit_dir == ds[i + 1]
        entry == << X(center) + X(dir_unit(entry_dir)) * half,
                    Y(center) + Y(dir_unit(entry_dir)) * half >>
        exit == << X(center) + X(dir_unit(exit_dir)) * half,
                   Y(center) + Y(dir_unit(exit_dir)) * half >>
        withEntry == push_unique(pts, entry)
    IN  IF is_corner(tile)
        THEN push_corner_arc_samples(withEntry,
                corner_arc_center(tile, center, half), half, entry, exit)
        ELSE push_unique(withEntry, exit)

\* "Close the loop if needed (avoid duplicating the first point)."
close_loop(pts) ==
    IF pts # <<>> /\ Within1e3(pts[Len(pts)], pts[1])
    THEN SubSeq(pts, 1, Len(pts) - 1)
    ELSE pts

\* A segment end that stops at the last point instead of wrapping to the first.
segment_end_nowrap(pts, i) == pts[(IF i + 1 < Len(pts) THEN i + 1 ELSE i) + 1]

\* points[(i + 1) % n], point i of the code being pts[i + 1]
segment_end(pts, i) == pts[((i + 1) % Len(pts)) + 1]

-----------------------------------------------------------------------------
(* Road-membership queries: a grid is built once, then is_road_at is       *)
(* called with arbitrary world points.                                     *)

\* Grid shapes (rows, cols) of the road-membership specification: a single
\* cell, and the two ways of putting two cells side by side.
RoadShapes == {<<1, 1>>, <<1, 2>>, <<2, 1>>}

\* Cell sizes in pixels.
RoadTileSizes == {8 * Scale, 10 * Scale}

RoadGrids ==
    UNION { { TrackGridNew(tiles, ts, CentredOrigin(sh[1], sh[2], ts)) :
                tiles \in [Indices(sh[1]) -> [Indices(sh[2]) -> TilePart]],
                ts \in RoadTileSizes }
            : sh \in RoadShapes }

\* Lattice points over the grid rectangle and Reach steps around it.
QueryPoints(g) ==
    { << X(g.origin) + i * LatticeStep, Y(g.origin) - j * LatticeStep >> :
        i \in (0 - Reach) .. ((cols(g) * g.tile_size) \div LatticeStep + Reach),
        j \in (0 - Reach) .. ((rows(g) * g.tile_size) \div LatticeStep + Reach) }

\* The components no system has touched.
ProjIdle ==
    /\ pos = <<0, 0>>
    /\ best = <<>>
    /\ progress = <<>>
    /\ pose = 0

SenseIdle ==
    /\ ray = <<>>
    /\ sensors = <<>>
    /\ observation = <<>>

TickIdle ==
    /\ entity = <<>>
    /\ action_state = <<>>
    /\ collision_events = <<>>
    /\ episode_state = <<>>
    /\ moving_averages = <<>>
    /\ sim = <<>>

AuxIdle == ProjIdle /\ SenseIdle /\ car = <<>> /\ TickIdle

BuildIdle ==
    /\ start_cell = <<0, 0>>
    /\ start_dir = "East"
    /\ pc = "idle"
    /\ cells = <<>>
    /\ dirs = <<>>
    /\ visited = {}
    /\ current = <<0, 0>>
    /\ incoming = "West"
    /\ loop_i = 0
    /\ points = <<>>
    /\ cumulative = <<>>
    /\ total = 0
    /\ result = [kind |-> "none"]
    /\ centerline = None

InitRoad ==
    /\ grid \in RoadGrids
    /\ query = None
    /\ BuildIdle
    /\ AuxIdle

\* A caller (collision detection, a sensor ray) calls grid.is_road_at(world).
QueryRoad ==
    /\ query = None
    /\ \E p \in QueryPoints(grid) :
          query' = [world |-> p, road |-> is_road_at(grid, p)]
    /\ UNCHANGED <<grid, buildVars, auxVars>>

\* The caller consumes the answer; the grid is unchanged (is_road_at is pure).
QueryReturn ==
    /\ query # None
    /\ query' = None
    /\ UNCHANGED <<grid, buildVars, auxVars>>

NextRoad == QueryRoad \/ QueryReturn

SpecRoad == InitRoad /\ [][NextRoad]_vars

-----------------------------------------------------------------------------
(* TrackCenterline::build_closed_loop, one loop iteration per step         *)

\* Layouts the builder is run on.
Ring2x2 == << <<"CornerNW", "CornerNE">>,
              <<"CornerSW", "CornerSE">> >>

Crossroads2x2 == << <<"Crossroads", "Crossroads">>,
                    <<"Crossroads", "Crossroads">> >>

Row1x3 == << <<"StraightH", "SpawnPoint", "StraightH">> >>

Ring2x3 == << <<"CornerNW", "SpawnPoint", "CornerNE">>,
              <<"CornerSW", "StraightH", "CornerSE">> >>

BaseLayouts == {Ring2x2, Crossroads2x2, Row1x3, Ring2x3}

\* Cell size of the builder's grids, in pixels times Scale.
BuildTileSize == 8 * Scale

\* All tile arrays that differ from `tiles` in at most k cells.
RECURSIVE Edited(_, _)
Edited(tiles, k) ==
    IF k = 0 THEN {tiles}
    ELSE LET less == Edited(tiles, k - 1) IN
         less \cup
         { [t EXCEPT ![r][c] = x] :
             t \in less,
             r \in DOMAIN tiles, c \in DOMAIN tiles[0], x \in TilePart }

BuildGrids ==
    UNION { { TrackGridNew(t, BuildTileSize,
                 CentredOrigin(Len(layout), Len(layout[1]), BuildTileSize)) :
              t \in Edited(TilesOf(layout), MaxEdits) }
            : layout \in BaseLayouts }

\* Start cells: every cell of the grid and the cells one past its last row
\* and column.
StartCells(g) == (0 .. rows(g)) \X (0 .. cols(g))

InitBuild ==
    /\ grid \in BuildGrids
    /\ query = None
    /\ start_cell \in StartCells(grid)
    /\ start_dir \in GridDir
    /\ AuxIdle
    /\ pc = "call"
    /\ cells = <<>>
    /\ dirs = <<>>
    /\ visited = {}
    /\ current = start_cell
    /\ incoming = opposite(start_dir)
    /\ loop_i = 0
    /\ points = <<>>
    /\ cumulative = <<>>
    /\ total = 0
    /\ result = [kind |-> "none"]
    /\ centerline = None

\* traverse_cells up to the loop: the start-cell check and the initial locals.
TraverseEnter ==
    /\ pc = "call"
    /\ IF tile_at(grid, start_cell[1], start_cell[2]) = "Empty"
       THEN /\ result' = InvalidStartCell(start_cell[1], start_cell[2])
            /\ pc' = "done"
            /\ UNCHANGED <<cells, visited, current, incoming, tickVars>>
       ELSE /\ cells' = <<start_cell>>
            /\ visited' = {start_cell}
            /\ current' = start_cell
            /\ incoming' = opposite(start_dir)
            /\ pc' = "loop"
            /\ UNCHANGED result
    /\ dirs' = <<>>
    /\ UNCHANGED <<grid, query, auxVars, start_cell, start_dir, loop_i, points,
                   lengthVars, centerline>>

\* One iteration of the `loop` of traverse_cells.
TraverseStep ==
    /\ pc = "loop"
    /\ LET choice == IF current = start_cell /\ dirs = <<>>
                     THEN [ok |-> TRUE, dir |-> start_dir]
                     ELSE choose_next_dir(grid, current, incoming)
       IN
       IF ~choice.ok
       THEN /\ result' = choice.err
            /\ pc' = "done"
            /\ UNCHANGED <<cells, dirs, visited, current, incoming, tickVars>>
       ELSE
         LET next_dir == choice.dir
             next == step_cell(current, next_dir)
         IN
         IF next = None
         THEN /\ result' = DeadEnd(current[1], current[2])
              /\ pc' = "done"
              /\ UNCHANGED <<cells, dirs, visited, current, incoming, tickVars>>
         ELSE
           /\ dirs' = Append(dirs, next_dir)
           /\ IF next = start_cell
              THEN /\ pc' = "polyline"
                   /\ UNCHANGED <<cells, visited, current, incoming, result, tickVars>>
              ELSE IF ~HashSetInsert(visited, next)
              THEN /\ result' = NotClosedLoop
                   /\ pc' = "done"
                   /\ UNCHANGED <<cells, visited, current, incoming, tickVars>>
              ELSE IF tile_at(grid, next[1], next[2]) = "Empty"
              THEN /\ result' = DeadEnd(current[1], current[2])
                   /\ pc' = "done"
                   /\ visited' = visited \cup {next}
                   /\ UNCHANGED <<cells, current, incoming, tickVars>>
              ELSE /\ cells' = Append(cells, next)
                   /\ visited' = visited \cup {next}
                   /\ incoming' = opposite(next_dir)
                   /\ current' = next
                   /\ UNCHANGED <<pc, result, tickVars>>
    /\ UNCHANGED <<grid, query, auxVars, start_cell, start_dir, loop_i, points,
                   lengthVars, centerline>>

\* One iteration of the `for i in 0..n` loop of build_polyline_points.
PolylineStep ==
    /\ pc = "polyline"
    /\ loop_i < Len(cells)
    /\ points' = polyline_cell(grid, cells, dirs, points, loop_i)
    /\ loop_i' = loop_i + 1
    /\ UNCHANGED <<grid, query, auxVars, start_cell, start_dir, pc, traverseVars,
                   lengthVars, result, centerline>>

\* The end of build_polyline_points and, back in build_closed_loop, the
\* length check; compute_lengths starts with `vec![0.0; n]` and total 0.
PolylineClose ==
    /\ pc = "polyline"
    /\ loop_i = Len(cells)
    /\ points' = close_loop(points)
    /\ IF Len(points') < 3
       THEN /\ result' = TooShort
            /\ pc' = "done"
            /\ UNCHANGED <<loop_i, lengthVars, tickVars>>
       ELSE /\ cumulative' = [j \in 1 .. Len(points') |-> 0]
            /\ total' = 0
            /\ loop_i' = 0
            /\ pc' = "lengths"
            /\ UNCHANGED result
    /\ UNCHANGED <<grid, query, auxVars, start_cell, start_dir, traverseVars, centerline>>

\* One iteration of the `for i in 0..n` loop of compute_lengths.
LengthsStep ==
    /\ pc = "lengths"
    /\ loop_i < Len(points)
    /\ cumulative' = [cumulative EXCEPT ![loop_i + 1] = total]
    /\ total' = F32(total + Distance(points[loop_i + 1],
                                     segment_end(points, loop_i)))
    /\ loop_i' = loop_i + 1
    /\ UNCHANGED <<grid, query, auxVars, start_cell, start_dir, pc, traverseVars,
                   points, result, centerline>>

\* compute_lengths returns and build_closed_loop returns Ok(Self { .. }).
LengthsDone ==
    /\ pc = "lengths"
    /\ loop_i = Len(points)
    /\ centerline' = [points |-> points,
                      cumulative_lengths |-> cumulative,
                      total_length |-> total]
    /\ result' = Ok
    /\ pc' = "done"
    /\ UNCHANGED <<grid, query, auxVars, start_cell, start_dir, traverseVars, loop_i,
                   points, lengthVars>>

NextBuild ==
    \/ TraverseEnter
    \/ TraverseStep
    \/ PolylineStep
    \/ PolylineClose
    \/ LengthsStep
    \/ LengthsDone

SpecBuild == InitBuild /\ [][NextBuild]_vars

-----------------------------------------------------------------------------
(* maps/monaco.rs : the shipped track, compiled once at start-up           *)

\* The layout with the vertical link at row 6, col 12 left out.
build_tiles_gap ==
    LET E == "Empty"  NW == "CornerNW"  NE == "CornerNE"  SW == "CornerSW"
        SE == "CornerSE"  H == "StraightH"  V == "StraightV"  SP == "SpawnPoint"
    IN << <<E, E,  E,  E,  E,  E,  E,  E,  E,  E,  E,  E,  E,  E>>,
          <<E, NW, H,  H,  SP, H,  H,  H,  H,  H,  H,  H,  NE, E>>,
          <<E, V,  NW, H,  NE, NW, H,  H,  H,  NE, NW, H,  SE, E>>,
          <<E, SW, SE, NW, SE, SW, H,  H,  NE, V,  SW, H,  NE, E>>,
          <<E, NW, NE, V,  NW, NE, NW, NE, V,  V,  NW, H,  SE, E>>,
          <<E, V,  V,  SW, SE, SW, SE, V,  V,  V,  SW, H,  NE, E>>,
          <<E, V,  SW, H,  H,  H,  H,  SE, V,  V,  NW, NE, E,  E>>,
          <<E, SW, H,  H,  H,  H,  H,  H,  SE, SW, SE, SW, SE, E>>,
          <<E, E,  E,  E,  E,  E,  E,  E,  E,  E,  E,  E,  E,  E>> >>

build_tiles ==
    LET E == "Empty"  NW == "CornerNW"  NE == "CornerNE"  SW == "CornerSW"
        SE == "CornerSE"  H == "StraightH"  V == "StraightV"  SP == "SpawnPoint"
    IN << <<E, E,  E,  E,  E,  E,  E,  E,  E,  E,  E,  E,  E,  E>>,
          <<E, NW, H,  H,  SP, H,  H,  H,  H,  H,  H,  H,  NE, E>>,
          <<E, V,  NW, H,  NE, NW, H,  H,  H,  NE, NW, H,  SE, E>>,
          <<E, SW, SE, NW, SE, SW, H,  H,  NE, V,  SW, H,  NE, E>>,
          <<E, NW, NE, V,  NW, NE, NW, NE, V,  V,  NW, H,  SE, E>>,
          <<E, V,  V,  SW, SE, SW, SE, V,  V,  V,  SW, H,  NE, E>>,
          <<E, V,  SW, H,  H,  H,  H,  SE, V,  V,  NW, NE, V,  E>>,
          <<E, SW, H,  H,  H,  H,  H,  H,  SE, SW, SE, SW, SE, E>>,
          <<E, E,  E,  E,  E,  E,  E,  E,  E,  E,  E,  E,  E,  E>> >>

\* "World-space side length of each grid cell in pixels", times Scale.
TILE_SIZE == 100 * Scale

\* The cells holding a SpawnPoint tile.
SpawnCells(g) ==
    {rc \in Indices(rows(g)) \X Indices(cols(g)) :
        g.tiles[rc[1]][rc[2]] = "SpawnPoint"}

\* The first SpawnPoint cell in row-major order, or None.
find_spawn_cell(g) ==
    IF SpawnCells(g) = {} THEN None
    ELSE CHOOSE rc \in SpawnCells(g) :
            \A other \in SpawnCells(g) :
               \/ rc[1] < other[1]
               \/ rc[1] = other[1] /\ rc[2] <= other[2]

\* The grid spawn_track builds, centred in the window.
MonacoGrid == MakeGrid(build_tiles, TILE_SIZE)

\* spawn_track: build_closed_loop(&grid, spawn_cell, GridDir::East)
InitMonaco ==
    /\ grid = MonacoGrid
    /\ find_spawn_cell(grid) # None
    /\ query = None
    /\ start_cell = find_spawn_cell(grid)
    /\ start_dir = "East"
    /\ AuxIdle
    /\ pc = "call"
    /\ cells = <<>>
    /\ dirs = <<>>
    /\ visited = {}
    /\ current = start_cell
    /\ incoming = opposite(start_dir)
    /\ loop_i = 0
    /\ points = <<>>
    /\ cumulative = <<>>
    /\ total = 0
    /\ result = [kind |-> "none"]
    /\ centerline = None

SpecMonaco == InitMonaco /\ [][NextBuild]_vars

-----------------------------------------------------------------------------
(* TrackCenterline::project, one segment per step, and the system that     *)
(* stores its result in the car's TrackProgress (game/progress.rs)         *)

\* f32::INFINITY: above every distance the model can produce.
INFINITY == 2147483647

\* Resolution of a fraction of the lap: FractionScale units make 1.0.
FractionScale == 100000

\* f32::clamp
Clamp(v, lo, hi) == IF v < lo THEN lo ELSE IF v > hi THEN hi ELSE v

\* Vec2::dot
Dot(a, b) == X(a) * X(b) + Y(a) * Y(b)

\* impl Default for TrackProgress
TrackProgressDefault ==
    [s |-> 0, fraction |-> 0, closest_point |-> <<0, 0>>,
     tangent |-> <<1000, 0>>, distance |-> 0]

\* `let mut best = CenterlineProjection { .. }` before the loop
project_init(c) ==
    [closest_point |-> c.points[1], tangent |-> <<1000, 0>>, s |-> 0,
     fraction |-> 0, distance |-> INFINITY]

\* A candidate whose s is measured from the start of its own segment.
project_candidate_local(c, w, i) ==
    LET n == Len(c.points)
        a == c.points[i + 1]
        b == c.points[((i + 1) % n) + 1]
        d == VSub(b, a)
        len2 == Dot(d, d)
        num == Clamp(Dot(VSub(w, a), d), 0, len2)
        p == << X(a) + RoundDiv(X(d) * num, len2),
                Y(a) + RoundDiv(Y(d) * num, len2) >>
        seg_len == Sqrt(len2)
        s == F32(RoundDiv(seg_len * num, len2))
    IN  [closest_point |-> p,
         tangent |-> << RoundDiv(X(d) * 1000, seg_len),
                        RoundDiv(Y(d) * 1000, seg_len) >>,
         s |-> s,
         fraction |-> Clamp(RoundDiv(s * FractionScale, c.total_length),
                            0, FractionScale),
         distance |-> Distance(w, p)]

\* A candidate placed at the start of its segment instead of at a + d * t.
project_candidate_at_start(c, w, i) ==
    LET n == Len(c.points)
        a == c.points[i + 1]
        b == c.points[((i + 1) % n) + 1]
        d == VSub(b, a)
        len2 == Dot(d, d)
        num == Clamp(Dot(VSub(w, a), d), 0, len2)
        seg_len == Sqrt(len2)
        s == F32(c.cumulative_lengths[i + 1] + RoundDiv(seg_len * num, len2))
    IN  [closest_point |-> a,
         tangent |-> << RoundDiv(X(d) * 1000, seg_len),
                        RoundDiv(Y(d) * 1000, seg_len) >>,
         s |-> s,
         fraction |-> Clamp(RoundDiv(s * FractionScale, c.total_length),
                            0, FractionScale),
         distance |-> Distance(w, a)]

\* The candidate of segment i (0-based): t is held as the exact quotient
\* num / len2 clamped to [0, 1]; the products with t are rounded to the
\* model's resolution.
project_candidate(c, w, i) ==
    LET n == Len(c.points)
        a == c.points[i + 1]
        b == c.points[((i + 1) % n) + 1]
        d == VSub(b, a)
        len2 == Dot(d, d)
        num == Clamp(Dot(VSub(w, a), d), 0, len2)
        p == << X(a) + RoundDiv(X(d) * num, len2),
                Y(a) + RoundDiv(Y(d) * num, len2) >>
        seg_len == Sqrt(len2)
        s == F32(c.cumulative_lengths[i + 1] + RoundDiv(seg_len * num, len2))
    IN  [closest_point |-> p,
         tangent |-> << RoundDiv(X(d) * 1000, seg_len),
                        RoundDiv(Y(d) * 1000, seg_len) >>,
         s |-> s,
         fraction |-> Clamp(RoundDiv(s * FractionScale, c.total_length),
                            0, FractionScale),
         distance |-> Distance(w, p)]

\* Taking a candidate although it is only as near as the best so far.
closer_or_equal(dist, best_distance) == dist <= best_distance

\* `dist < best.distance`
closer(dist, best_distance) == dist < best_distance

\* The body of the `for i in 0..n` loop of project.
project_segment(c, w, b, i) ==
    LET n == Len(c.points)
        d == VSub(c.points[((i + 1) % n) + 1], c.points[i + 1])
    IN  IF Dot(d, d) = 0 THEN b
        ELSE LET cand == project_candidate(c, w, i) IN
             IF closer(cand.distance, b.distance) THEN cand ELSE b

\* Start positions for the projection runs: a layout, a cell of its loop and
\* one of that cell's open directions.
ProjectRuns ==
    { <<Ring2x2, <<0, 0>>, "East">>, <<Ring2x2, <<0, 0>>, "South">>,
      <<Ring2x3, <<0, 1>>, "East">>, <<Ring2x3, <<1, 1>>, "East">> }

Compiled(runs) ==
    /\ \E run \in runs :
          /\ grid = MakeGrid(run[1], BuildTileSize)
          /\ start_cell = run[2]
          /\ start_dir = run[3]
    /\ query = None
    /\ AuxIdle
    /\ pc = "call"
    /\ cells = <<>>
    /\ dirs = <<>>
    /\ visited = {}
    /\ current = start_cell
    /\ incoming = opposite(start_dir)
    /\ loop_i = 0
    /\ points = <<>>
    /\ cumulative = <<>>
    /\ total = 0
    /\ result = [kind |-> "none"]
    /\ centerline = None

InitCompiled == Compiled(ProjectRuns)

\* How far around a polyline point (in model units) car positions are drawn.
Near == 1

\* Spacing of the car positions drawn over the whole grid.
CoarseStep == BuildTileSize \div 4

\* Car positions: a coarse lattice over the grid and Reach steps around it,
\* the polyline's points, its segment midpoints, and every lattice point
\* within Near of a polyline point.
CarPositions(g, c) ==
    LET n == Len(c.points) IN
    { << X(g.origin) + i * CoarseStep, Y(g.origin) - j * CoarseStep >> :
        i \in (0 - Reach) .. ((cols(g) * g.tile_size) \div CoarseStep + Reach),
        j \in (0 - Reach) .. ((rows(g) * g.tile_size) \div CoarseStep + Reach) }
    \cup { c.points[k] : k \in 1 .. n }
    \cup { << (X(c.points[k]) + X(c.points[(k % n) + 1])) \div 2,
              (Y(c.points[k]) + Y(c.points[(k % n) + 1])) \div 2 >> : k \in 1 .. n }
    \cup { << X(c.points[k]) + dx, Y(c.points[k]) + dy >> :
             k \in 1 .. n,
             dx \in (0 - Near) .. Near, dy \in (0 - Near) .. Near }

\* update_track_progress_system on the first tick: the car is anywhere.
ProjectCall ==
    /\ pc = "done"
    /\ result = Ok
    /\ progress = <<>>
    /\ \E w \in CarPositions(grid, centerline) : pos' = w
    /\ best' = project_init(centerline)
    /\ loop_i' = 0
    /\ pc' = "project"
    /\ UNCHANGED <<grid, query, start_cell, start_dir, traverseVars, points,
                   lengthVars, result, centerline, progress, pose, senseVars,
                   car, tickVars>>

\* A later tick with the car moved onto the closest point last reported.
ReprojectCall ==
    /\ pc = "done"
    /\ result = Ok
    /\ progress # <<>>
    /\ pos # progress.closest_point
    /\ pos' = progress.closest_point
    /\ best' = project_init(centerline)
    /\ loop_i' = 0
    /\ pc' = "project"
    /\ UNCHANGED <<grid, query, start_cell, start_dir, traverseVars, points,
                   lengthVars, result, centerline, progress, pose, senseVars,
                   car, tickVars>>

\* One iteration of the `for i in 0..n` loop of project.
ProjectStep ==
    /\ pc = "project"
    /\ loop_i < Len(centerline.points)
    /\ best' = project_segment(centerline, pos, best, loop_i)
    /\ loop_i' = loop_i + 1
    /\ UNCHANGED <<grid, query, start_cell, start_dir, pc, traverseVars,
                   points, lengthVars, result, centerline, pos, progress,
                   pose, senseVars, car, tickVars>>

\* project returns `best`; update_track_progress_system copies its fields
\* into the TrackProgress component.
ProjectReturn ==
    /\ pc = "project"
    /\ loop_i = Len(centerline.points)
    /\ progress' = [s |-> best.s, fraction |-> best.fraction,
                    closest_point |-> best.closest_point,
                    tangent |-> best.tangent, distance |-> best.distance]
    /\ best' = <<>>
    /\ pc' = "done"
    /\ UNCHANGED <<grid, query, start_cell, start_dir, traverseVars, loop_i,
                   points, lengthVars, result, centerline, pos, pose,
                   senseVars, car, tickVars>>

NextProject ==
    \/ NextBuild
    \/ ProjectCall
    \/ ReprojectCall
    \/ ProjectStep
    \/ ProjectReturn

SpecProject == InitCompiled /\ [][NextProject]_vars

-----------------------------------------------------------------------------
(* A car driven forward along the centreline, its progress updated each    *)
(* tick                                                                    *)

\* The tracks the car is driven round.
LapRuns == { <<Ring2x2, <<0, 0>>, "East">>, <<Ring2x3, <<0, 1>>, "East">> }

InitLap == Compiled(LapRuns)

\* Places on the centreline, in polyline order: place 2i is polyline point
\* i, place 2i + 1 the midpoint of segment i.
Places(c) == 0 .. (2 * Len(c.points) - 1)

PlacePoint(c, k) ==
    LET n == Len(c.points)
        a == c.points[(k \div 2) + 1]
        b == c.points[(((k \div 2) + 1) % n) + 1]
    IN  IF k % 2 = 0 THEN a
        ELSE << (X(a) + X(b)) \div 2, (Y(a) + Y(b)) \div 2 >>

\* Arc length of a place from the polyline's first point.
PlaceArc(c, k) ==
    LET n == Len(c.points)
        a == c.points[(k \div 2) + 1]
        b == c.points[(((k \div 2) + 1) % n) + 1]
    IN  c.cumulative_lengths[(k \div 2) + 1]
           + (IF k % 2 = 0 THEN 0 ELSE Distance(a, b) \div 2)

\* How far place k2 is ahead of place k, going round the loop.
Ahead(c, k, k2) ==
    (PlaceArc(c, k2) - PlaceArc(c, k) + c.total_length) % c.total_length

\* The first tick: the car stands at some place of the centreline.
PlaceCall ==
    /\ pc = "done"
    /\ result = Ok
    /\ progress = <<>>
    /\ \E k \in Places(centerline) :
          /\ pose' = [prev |-> k, cur |-> k]
          /\ pos' = PlacePoint(centerline, k)
    /\ best' = project_init(centerline)
    /\ loop_i' = 0
    /\ pc' = "project"
    /\ UNCHANGED <<grid, query, start_cell, start_dir, traverseVars, points,
                   lengthVars, result, centerline, progress, senseVars, car, tickVars>>

\* A later tick: the car has moved forward along the centreline by less
\* than half a lap.
AdvanceCall ==
    /\ pc = "done"
    /\ result = Ok
    /\ progress # <<>>
    /\ \E k \in Places(centerline) :
          /\ Ahead(centerline, pose.cur, k) > 0
          /\ 2 * Ahead(centerline, pose.cur, k) < centerline.total_length
          /\ pose' = [prev |-> pose.cur, cur |-> k]
          /\ pos' = PlacePoint(centerline, k)
    /\ best' = project_init(centerline)
    /\ loop_i' = 0
    /\ pc' = "project"
    /\ UNCHANGED <<grid, query, start_cell, start_dir, traverseVars, points,
                   lengthVars, result, centerline, progress, senseVars, car, tickVars>>

NextLap ==
    \/ NextBuild
    \/ PlaceCall
    \/ AdvanceCall
    \/ ProjectStep
    \/ ProjectReturn

SpecLap == InitLap /\ [][NextLap]_vars

-----------------------------------------------------------------------------
(* agent/observation.rs : raycast_to_road_boundary, one loop iteration per *)
(* step.  A distance along a ray is held in 1/RayScale of a model unit, so *)
(* that the halvings of the bisection are exact as they are in f32.        *)

RayScale == 256

\* `for _ in 0..8`
REFINE_ITERATIONS == 8

\* Vec2::normalize_or_zero, a unit vector being 1000 long
normalize_or_zero(v) ==
    IF v = <<0, 0>> THEN <<0, 0>>
    ELSE LET len == Sqrt(Dot(v, v)) IN
         << RoundDiv(X(v) * 1000, len), RoundDiv(Y(v) * 1000, len) >>

\* `origin + dir * distance`
ray_point(origin, dir, distance) ==
    << X(origin) + RoundDiv(X(dir) * distance, 1000 * RayScale),
       Y(origin) + RoundDiv(Y(dir) * distance, 1000 * RayScale) >>

\* f32::max
Max(a, b) == IF a >= b THEN a ELSE b

\* A bisection step that keeps the midpoint on the wrong side.
bisect_swapped(g, origin, dir, inside, outside) ==
    LET mid == (inside + outside) \div 2 IN
    IF is_road_at(g, ray_point(origin, dir, mid))
    THEN [inside |-> inside, outside |-> mid]
    ELSE [inside |-> mid, outside |-> outside]

\* The body of the `for _ in 0..8` loop of refine_boundary_distance.
bisect(g, origin, dir, inside, outside) ==
    LET mid == (inside + outside) \div 2 IN
    IF is_road_at(g, ray_point(origin, dir, mid))
    THEN [inside |-> mid, outside |-> outside]
    ELSE [inside |-> inside, outside |-> mid]

\* A range check that lets the march take one sample beyond max_range.
in_range_one_more(distance, step, max_range) == distance - step <= max_range

\* `while distance <= max_range`
in_range(distance, step, max_range) == distance <= max_range

\* impl Default for ObservationConfig (ray_max_range, ray_step)
ObservationConfigDefault == [ray_max_range |-> 375 * Scale, ray_step |-> 3 * Scale]

\* Configurations the rays are cast with: the default step with ranges that
\* end inside the small grids, and a finer step.
RayConfigs ==
    {[ray_max_range |-> m * Scale, ray_step |-> ObservationConfigDefault.ray_step] :
        m \in {2, 5, 6}}
    \cup {[ray_max_range |-> 4 * Scale, ray_step |-> 1 * Scale]}

\* Spacing of the ray origins drawn over the grid.
OriginStep == 2 * Scale

RayOrigins(g) ==
    { << X(g.origin) + i * OriginStep, Y(g.origin) - j * OriginStep >> :
        i \in 0 .. ((cols(g) * g.tile_size) \div OriginStep),
        j \in 0 .. ((rows(g) * g.tile_size) \div OriginStep) }

\* Ray directions: Vec2::new(world_angle.cos(), world_angle.sin()) every
\* sixteenth of a turn, a vector that is not of unit length, and zero.
RayDirections ==
    { <<Cos(16 * j), Sin(16 * j)>> : j \in 0 .. 15 } \cup { <<2000, 0>>, <<0, 0>> }

RayGrids == { MakeGrid(Ring2x2, BuildTileSize), MakeGrid(Row1x3, BuildTileSize) }

InitRay ==
    /\ grid \in RayGrids
    /\ query = None
    /\ BuildIdle
    /\ AuxIdle

\* raycast_to_road_boundary is called; a zero direction returns at once.
RayCall ==
    /\ ray = <<>>
    /\ \E origin \in RayOrigins(grid), direction \in RayDirections,
          cfg \in RayConfigs :
          LET dir == normalize_or_zero(direction)
              step == Max(cfg.ray_step, Scale \div 2) * RayScale
              args == [origin |-> origin, dir |-> dir,
                       max_range |-> cfg.ray_max_range * RayScale,
                       step |-> step, previous_distance |-> 0,
                       distance |-> step, inside |-> 0, outside |-> 0,
                       iteration |-> 0]
          IN  IF dir = <<0, 0>>
              THEN ray' = [args EXCEPT !.distance = 0] @@
                          [phase |-> "returned", refined |-> FALSE,
                           result |-> [distance |-> 0, hit |-> origin]]
              ELSE ray' = args @@
                          [phase |-> "march", refined |-> FALSE,
                           result |-> <<>>]
    /\ UNCHANGED <<grid, query, buildVars, projVars, sensors, observation, car, tickVars>>

\* One test of the `while distance <= max_range` condition, and the loop
\* body if it holds.
RayMarch ==
    /\ ray # <<>>
    /\ ray.phase = "march"
    /\ IF in_range(ray.distance, ray.step, ray.max_range)
       THEN IF ~is_road_at(grid, ray_point(ray.origin, ray.dir, ray.distance))
            THEN ray' = [ray EXCEPT !.phase = "refine",
                                    !.inside = ray.previous_distance,
                                    !.outside = ray.distance,
                                    !.iteration = 0]
            ELSE ray' = [ray EXCEPT !.previous_distance = ray.distance,
                                    !.distance = ray.distance + ray.step]
       ELSE ray' = [ray EXCEPT !.phase = "returned",
                       !.result = [distance |-> ray.max_range,
                                   hit |-> ray_point(ray.origin, ray.dir,
                                                     ray.max_range)]]
    /\ UNCHANGED <<grid, query, buildVars, projVars, sensors, observation, car, tickVars>>

\* One iteration of the bisection of refine_boundary_distance.
RayRefine ==
    /\ ray # <<>>
    /\ ray.phase = "refine"
    /\ ray.iteration < REFINE_ITERATIONS
    /\ LET next == bisect(grid, ray.origin, ray.dir, ray.inside, ray.outside)
       IN  ray' = [ray EXCEPT !.inside = next.inside,
                              !.outside = next.outside,
                              !.iteration = ray.iteration + 1]
    /\ UNCHANGED <<grid, query, buildVars, projVars, sensors, observation, car, tickVars>>

\* refine_boundary_distance returns `inside`; raycast_to_road_boundary
\* returns (refined, origin + dir * refined).
RayRefined ==
    /\ ray # <<>>
    /\ ray.phase = "refine"
    /\ ray.iteration = REFINE_ITERATIONS
    /\ ray' = [ray EXCEPT !.phase = "returned", !.refined = TRUE,
                  !.result = [distance |-> ray.inside,
                              hit |-> ray_point(ray.origin, ray.dir, ray.inside)]]
    /\ UNCHANGED <<grid, query, buildVars, projVars, sensors, observation, car, tickVars>>

\* The caller has taken the result.
RayTaken ==
    /\ ray # <<>>
    /\ ray.phase = "returned"
    /\ ray' = <<>>
    /\ UNCHANGED <<grid, query, buildVars, projVars, sensors, observation, car, tickVars>>

NextRay == RayCall \/ RayMarch \/ RayRefine \/ RayRefined \/ RayTaken

SpecRay == InitRay /\ [][NextRay]_vars

-----------------------------------------------------------------------------
(* agent/observation.rs : sensor readings and the observation vector, one  *)
(* system run per step.  Velocities are in pixels per second, angles in    *)
(* binary degrees, normalised values in 1/ObsScale.                        *)

\* "Number of ray sensors in the observation model."
NUM_RAYS == 11

\* Resolution of a normalised observation value: ObsScale units make 1.0.
ObsScale == 1000

\* `Time::<Fixed>::from_hz(60.0)`: ticks per second of the fixed timestep
\* (dt = 1 / FixedHz seconds).
FixedHz == 60

\* The angles an atan2 can return, -PI excluded (it takes a negative zero).
Angles == (1 - PI) .. PI

\* Vec2::length, rounded to the nearest unit
Length(v) ==
    LET n == Dot(v, v)
        r == Sqrt(n)
    IN  IF n - r * r > r THEN r + 1 ELSE r

\* Vec2::normalize_or_zero of a direction, a unit vector being 1000 long
unit_or_zero(v) ==
    IF v = <<0, 0>> THEN <<0, 0>>
    ELSE << RoundDiv(X(v) * 1000, Length(v)), RoundDiv(Y(v) * 1000, Length(v)) >>

\* Vec2::to_angle, f32::atan2: the angle whose direction is v, or is nearest
\* to v.
to_angle(v) ==
    IF \E a \in Angles : v = <<Cos(a), Sin(a)>>
    THEN CHOOSE a \in Angles : v = <<Cos(a), Sin(a)>>
    ELSE CHOOSE a \in Angles :
            \A b \in Angles :
               DistSq(v, <<Cos(a), Sin(a)>>) <= DistSq(v, <<Cos(b), Sin(b)>>)

RECURSIVE WrapAngleDown(_)
WrapAngleDown(angle) ==
    IF angle > PI THEN WrapAngleDown(angle - 2 * PI) ELSE angle

RECURSIVE WrapAngleUp(_)
WrapAngleUp(angle) ==
    IF angle < 0 - PI THEN WrapAngleUp(angle + 2 * PI) ELSE angle

\* `while angle > PI { .. }  while angle < -PI { .. }`
wrap_angle(angle) == WrapAngleUp(WrapAngleDown(angle))

signed_angle_between(from, to) ==
    LET from_n == unit_or_zero(from)
        to_n == unit_or_zero(to)
    IN  IF from_n = <<0, 0>> \/ to_n = <<0, 0>> THEN 0
        ELSE wrap_angle(to_angle(to_n) - to_angle(from_n))

\* impl Default for SensorReadings (the fields kept for debug rendering,
\* ray_hits and ray_directions, are left out)
SensorReadingsDefault ==
    [ray_distances |-> [i \in 1 .. NUM_RAYS |-> 0],
     speed |-> 0, heading_error |-> 0, angular_velocity |-> 0,
     previous_heading |-> 0]

\* impl Default for ObservationVector
ObservationVectorDefault == [i \in 1 .. (NUM_RAYS + 3) |-> 0]

\* impl Default for ObservationConfig (the normalisation scales);
\* angular_velocity_norm_max is 8 rad/s in binary degrees per second.
SpeedNormMax == 900
AngularVelocityNormMax == RoundDiv(8 * PI * 1000, 3142)

\* What the eleven raycasts of one tick return: every ray at max range, or
\* a spread from near zero up.
RayReadings ==
    { [i \in 1 .. NUM_RAYS |-> ObservationConfigDefault.ray_max_range],
      [i \in 1 .. NUM_RAYS |->
          (i * ObservationConfigDefault.ray_max_range) \div (NUM_RAYS + 1)] }

\* Car rotations: the four axis directions, and one a small turn away from
\* East.
CarHeadings == { 0, 2, 64, PI, 0 - 64 }

\* Car velocities in pixels per second: below and above the normalisation
\* scale.
CarVelocities == { <<300, 400>>, <<0 - 1200, 500>> }

\* Tangents of the TrackProgress component: along East and South running
\* segments, along an arc chord, and zero.
Tangents ==
    { <<1000, 0>>, <<0, 0 - 1000>>, <<Cos(68), Sin(68)>>, <<0, 0>> }

\* An observation vector that lists the angular velocity before the heading
\* error.
observation_values_swapped(sr) ==
    [i \in 1 .. (NUM_RAYS + 3) |->
        IF i <= NUM_RAYS
        THEN Clamp(RoundDiv(sr.ray_distances[i] * ObsScale,
                            ObservationConfigDefault.ray_max_range), 0, ObsScale)
        ELSE IF i = NUM_RAYS + 1
        THEN Clamp(RoundDiv(sr.speed * ObsScale, SpeedNormMax), 0, ObsScale)
        ELSE IF i = NUM_RAYS + 2
        THEN Clamp(RoundDiv(sr.angular_velocity * ObsScale, AngularVelocityNormMax),
                   0 - ObsScale, ObsScale)
        ELSE Clamp(RoundDiv(sr.heading_error * ObsScale, PI), 0 - ObsScale, ObsScale)]

\* The `values` array build_observation_vector_system fills.
observation_values(sr) ==
    [i \in 1 .. (NUM_RAYS + 3) |->
        IF i <= NUM_RAYS
        THEN Clamp(RoundDiv(sr.ray_distances[i] * ObsScale,
                            ObservationConfigDefault.ray_max_range), 0, ObsScale)
        ELSE IF i = NUM_RAYS + 1
        THEN Clamp(RoundDiv(sr.speed * ObsScale, SpeedNormMax), 0, ObsScale)
        ELSE IF i = NUM_RAYS + 2
        THEN Clamp(RoundDiv(sr.heading_error * ObsScale, PI), 0 - ObsScale, ObsScale)
        ELSE Clamp(RoundDiv(sr.angular_velocity * ObsScale, AngularVelocityNormMax),
                   0 - ObsScale, ObsScale)]

InitObserve ==
    /\ grid = MakeGrid(Ring2x2, BuildTileSize)
    /\ query = None
    /\ BuildIdle
    /\ ProjIdle
    /\ TickIdle
    /\ ray = <<>>
    /\ car = <<>>
    /\ sensors = SensorReadingsDefault @@
                 [fresh |-> FALSE, forward |-> <<1000, 0>>, tangent |-> <<1000, 0>>]
    /\ observation = ObservationVectorDefault

\* update_sensor_readings_system for one tick: the car's rotation and
\* velocity, the tangent of its TrackProgress and the raycast results are
\* this tick's inputs.
UpdateSensors ==
    /\ ~sensors.fresh
    /\ \E h \in CarHeadings :
       \E forward \in {unit_or_zero(<<Cos(h), Sin(h)>>)} :
       \E heading \in {to_angle(forward)} :
       \E tangent \in Tangents :
       \E heading_error \in {signed_angle_between(forward, tangent)} :
       \E velocity \in CarVelocities, rays \in RayReadings :
          sensors' =
             [ray_distances |-> rays,
              speed |-> Length(velocity),
              heading_error |-> heading_error,
              angular_velocity |->
                 wrap_angle(heading - sensors.previous_heading) * FixedHz,
              previous_heading |-> heading,
              fresh |-> TRUE, forward |-> forward, tangent |-> tangent]
    /\ UNCHANGED <<grid, query, buildVars, projVars, ray, observation, car, tickVars>>

\* build_observation_vector_system, which runs after it in the same tick.
BuildObservation ==
    /\ sensors.fresh
    /\ observation' = observation_values(sensors)
    /\ sensors' = [sensors EXCEPT !.fresh = FALSE]
    /\ UNCHANGED <<grid, query, buildVars, projVars, ray, car, tickVars>>

NextObserve == UpdateSensors \/ BuildObservation

SpecObserve == InitObserve /\ [][NextObserve]_vars

-----------------------------------------------------------------------------
(* game/physics.rs : the pure kinematics stepper, applied step after step  *)
(* as the runtime system and the replay test apply it.  Positions are in   *)
(* model units, velocities in model units per second, headings in binary   *)
(* degrees, steering and throttle in 1/InputScale.                         *)

\* Resolution of steering and throttle: InputScale units make 1.0.
InputScale == 2

\* impl Default for Car: rotation_speed 4.0 rad/s, thrust 1500.0 px/s^2,
\* drag 0.985 per step.
RotationSpeed == RoundDiv(4 * PI * 1000, 3142)
Thrust == 1500 * Scale
DragPermille == 985

\* How many steps of the stepper are followed.
MaxSteps == 3

\* `-steering * params.rotation_speed * dt`
heading_change(steering) ==
    RoundDiv((0 - steering) * RotationSpeed, InputScale * FixedHz)

\* `forward * (params.thrust * throttle) * dt`, forward being the unit
\* vector of the heading
velocity_gain(heading, throttle) ==
    << RoundDiv(Cos(heading) * Thrust * throttle, 1000 * InputScale * FixedHz),
       RoundDiv(Sin(heading) * Thrust * throttle, 1000 * InputScale * FixedHz) >>

\* `state.velocity *= params.drag`
dragged(velocity) ==
    << RoundDiv(X(velocity) * DragPermille, 1000),
       RoundDiv(Y(velocity) * DragPermille, 1000) >>

\* `state.velocity * dt`
displacement(velocity) ==
    << RoundDiv(X(velocity), FixedHz), RoundDiv(Y(velocity), FixedHz) >>

\* A stepper that applies the thrust before the steering change and moves
\* the car by the velocity it had before the drag.
step_car_dynamics_thrust_first(state, steering, throttle) ==
    LET thrusted == IF throttle > 0
                    THEN VAdd(state.velocity,
                              velocity_gain(state.heading,
                                            Clamp(throttle, 0, InputScale)))
                    ELSE state.velocity
    IN  [position |-> VAdd(state.position, displacement(thrusted)),
         velocity |-> dragged(thrusted),
         heading |-> state.heading
                       + heading_change(Clamp(steering, 0 - InputScale, InputScale))]

step_car_dynamics(state, steering, throttle) ==
    LET heading == state.heading
                     + heading_change(Clamp(steering, 0 - InputScale, InputScale))
        thrusted == IF throttle > 0
                    THEN VAdd(state.velocity,
                              velocity_gain(heading, Clamp(throttle, 0, InputScale)))
                    ELSE state.velocity
        velocity == dragged(thrusted)
    IN  [position |-> VAdd(state.position, displacement(velocity)),
         velocity |-> velocity,
         heading |-> heading]

\* Steering and throttle values passed to the stepper, in and out of their
\* nominal ranges [-1, 1] and [0, 1].
SteeringInputs == { 0 - 2 * InputScale, 0 - 1, 0, InputScale, 2 * InputScale }
ThrottleInputs == { 0 - InputScale, 0, 1, InputScale, 2 * InputScale }

\* Headings a car starts from.
StartHeadings == { 0, 64, 0 - 96 }

InitPhysics ==
    /\ grid = MakeGrid(Ring2x2, BuildTileSize)
    /\ query = None
    /\ BuildIdle
    /\ ProjIdle
    /\ SenseIdle
    /\ TickIdle
    /\ \E heading \in StartHeadings :
          LET state == [position |-> <<0, 0>>, velocity |-> <<0, 0>>,
                        heading |-> heading]
          IN  car = [state |-> state, before |-> state, steering |-> 0,
                     throttle |-> 0, steps |-> 0]

\* One call of step_car_dynamics.
PhysicsStep ==
    /\ car.steps < MaxSteps
    /\ \E steering \in SteeringInputs, throttle \in ThrottleInputs :
          car' = [state |-> step_car_dynamics(car.state, steering, throttle),
                  before |-> car.state,
                  steering |-> steering,
                  throttle |-> throttle,
                  steps |-> car.steps + 1]
    /\ UNCHANGED <<grid, query, buildVars, projVars, senseVars, tickVars>>

NextPhysics == PhysicsStep

SpecPhysics == InitPhysics /\ [][NextPhysics]_vars

-----------------------------------------------------------------------------
(* Road membership: properties                                             *)

\* The four edges of cell (row, col), from the grid's origin and cell size.
CellLeft(g, col) == X(g.origin) + col * g.tile_size
CellRight(g, col) == X(g.origin) + (col + 1) * g.tile_size
CellTop(g, row) == Y(g.origin) - row * g.tile_size
CellBottom(g, row) == Y(g.origin) - (row + 1) * g.tile_size

\* p lies in cell (row, col): a cell owns its left and top edge.
InCell(g, p, row, col) ==
    /\ CellLeft(g, col) <= X(p) /\ X(p) < CellRight(g, col)
    /\ CellBottom(g, row) < Y(p) /\ Y(p) <= CellTop(g, row)

GridCells(g) == Indices(rows(g)) \X Indices(cols(g))

HalfWall == WALL_THICKNESS \div 2

Asked == query # None

\* C2: is_road_at(p) is true only if p lies in a cell of the grid whose tile
\* is not Empty; a point outside the grid rectangle, and a point in an Empty
\* cell, is not road.
C2_RoadOnlyInNonEmptyCell ==
    Asked =>
      /\ query.road =>
            \E rc \in GridCells(grid) :
               /\ InCell(grid, query.world, rc[1], rc[2])
               /\ grid.tiles[rc[1]][rc[2]] # "Empty"
      /\ (\A rc \in GridCells(grid) : ~InCell(grid, query.world, rc[1], rc[2]))
            => ~query.road
      /\ \A rc \in GridCells(grid) :
            (InCell(grid, query.world, rc[1], rc[2])
               /\ grid.tiles[rc[1]][rc[2]] = "Empty") => ~query.road

\* A point left of the grid, level with a cell that is open to the west, was
\* asked and answered not road.
C2_Witness ==
    /\ Asked
    /\ ~query.road
    /\ X(query.world) < CellLeft(grid, 0)
    /\ \E row \in Indices(rows(grid)) :
          /\ CellBottom(grid, row) < Y(query.world)
          /\ Y(query.world) <= CellTop(grid, row)
          /\ open_edges(grid.tiles[row][0]).w

\* p keeps the wall margin from every closed edge of cell (row, col).
ClearOfClosedEdges(g, p, row, col) ==
    LET open == open_edges(g.tiles[row][col]) IN
    /\ open.n \/ CellTop(g, row) - Y(p) >= HalfWall
    /\ open.s \/ Y(p) - CellBottom(g, row) >= HalfWall
    /\ open.e \/ CellRight(g, col) - X(p) >= HalfWall
    /\ open.w \/ X(p) - CellLeft(g, col) >= HalfWall

\* C3: in a cell holding a non-corner road tile, is_road_at(p) is true exactly
\* when p is at least half the wall thickness away from every closed edge;
\* open edges impose no inset.
C3_NonCornerInset ==
    Asked =>
      \A rc \in GridCells(grid) :
         (/\ InCell(grid, query.world, rc[1], rc[2])
          /\ is_road(grid.tiles[rc[1]][rc[2]])
          /\ ~is_corner(grid.tiles[rc[1]][rc[2]]))
         => (query.road <=> ClearOfClosedEdges(grid, query.world, rc[1], rc[2]))

\* A point exactly half a wall thickness below the closed north edge of a
\* StraightH cell, answered road.
C3_Witness ==
    /\ Asked
    /\ query.road
    /\ \E rc \in GridCells(grid) :
          /\ InCell(grid, query.world, rc[1], rc[2])
          /\ grid.tiles[rc[1]][rc[2]] = "StraightH"
          /\ CellTop(grid, rc[1]) - Y(query.world) = HalfWall

\* Cells a and b are road cells, b is a's east (resp. south) neighbour, and
\* the two edges on their shared boundary are both closed.
ClosedPairEW(g, a, b) ==
    /\ b = <<a[1], a[2] + 1>>
    /\ is_road(g.tiles[a[1]][a[2]]) /\ is_road(g.tiles[b[1]][b[2]])
    /\ ~open_edges(g.tiles[a[1]][a[2]]).e
    /\ ~open_edges(g.tiles[b[1]][b[2]]).w

ClosedPairNS(g, a, b) ==
    /\ b = <<a[1] + 1, a[2]>>
    /\ is_road(g.tiles[a[1]][a[2]]) /\ is_road(g.tiles[b[1]][b[2]])
    /\ ~open_edges(g.tiles[a[1]][a[2]]).s
    /\ ~open_edges(g.tiles[b[1]][b[2]]).n

InEither(g, p, a, b) == InCell(g, p, a[1], a[2]) \/ InCell(g, p, b[1], b[2])

\* C4: two adjacent road cells whose facing edges are both closed: every
\* point of either cell nearer than half the wall thickness to the shared
\* boundary is not road.
C4_DeadZoneAtSharedWall ==
    Asked =>
      \A a \in GridCells(grid), b \in GridCells(grid) :
         /\ (/\ ClosedPairEW(grid, a, b)
             /\ InEither(grid, query.world, a, b)
             /\ Abs(X(query.world) - CellRight(grid, a[2])) < HalfWall)
            => ~query.road
         /\ (/\ ClosedPairNS(grid, a, b)
             /\ InEither(grid, query.world, a, b)
             /\ Abs(Y(query.world) - CellBottom(grid, a[1])) < HalfWall)
            => ~query.road

\* A point of a corner cell, strictly inside the dead zone of the wall it
\* shares with its west neighbour, was asked.
C4_Witness ==
    /\ Asked
    /\ \E a \in GridCells(grid), b \in GridCells(grid) :
          /\ ClosedPairEW(grid, a, b)
          /\ is_corner(grid.tiles[b[1]][b[2]])
          /\ InCell(grid, query.world, b[1], b[2])
          /\ X(query.world) - CellRight(grid, a[2]) > 0
          /\ X(query.world) - CellRight(grid, a[2]) < HalfWall
          /\ ~query.road

\* The cell corner at which the tile's two open edges meet.
OpenPairCorner(g, row, col) ==
    LET open == open_edges(g.tiles[row][col]) IN
    << IF open.e THEN CellRight(g, col) ELSE CellLeft(g, col),
       IF open.n THEN CellTop(g, row) ELSE CellBottom(g, row) >>

\* The cell corner diagonally opposite the one where the open edges meet.
OppositeOfOpenPairCorner(g, row, col) ==
    LET open == open_edges(g.tiles[row][col]) IN
    << IF open.e THEN CellLeft(g, col) ELSE CellRight(g, col),
       IF open.n THEN CellBottom(g, row) ELSE CellTop(g, row) >>

ArcRadius(g) == g.tile_size - HalfWall

\* C5 as stated: in a corner cell, is_road_at(p) is true exactly when p is
\* within (cell size - half wall thickness) of the cell corner diagonally
\* opposite the tile's pair of open edges.
C5_Original_ArcCentreOppositeOpenEdges ==
    Asked =>
      \A rc \in GridCells(grid) :
         (/\ InCell(grid, query.world, rc[1], rc[2])
          /\ is_corner(grid.tiles[rc[1]][rc[2]]))
         => (query.road <=>
               DistSq(query.world, OppositeOfOpenPairCorner(grid, rc[1], rc[2]))
                  <= ArcRadius(grid) * ArcRadius(grid))

\* C5 (amended): in a corner cell, is_road_at(p) is true exactly when p is
\* within (cell size - half wall thickness) of the cell corner at which the
\* tile's two open edges meet (the corner diagonally opposite the quadrant
\* the tile is named after).
C5_ArcCentreAtOpenEdges ==
    Asked =>
      \A rc \in GridCells(grid) :
         (/\ InCell(grid, query.world, rc[1], rc[2])
          /\ is_corner(grid.tiles[rc[1]][rc[2]]))
         => (query.road <=>
               DistSq(query.world, OpenPairCorner(grid, rc[1], rc[2]))
                  <= ArcRadius(grid) * ArcRadius(grid))

\* A point of a corner cell exactly on the arc, off both open edges, answered
\* road.
C5_Witness ==
    /\ Asked
    /\ query.road
    /\ \E rc \in GridCells(grid) :
          /\ InCell(grid, query.world, rc[1], rc[2])
          /\ is_corner(grid.tiles[rc[1]][rc[2]])
          /\ X(query.world) # X(OpenPairCorner(grid, rc[1], rc[2]))
          /\ Y(query.world) # Y(OpenPairCorner(grid, rc[1], rc[2]))
          /\ DistSq(query.world, OpenPairCorner(grid, rc[1], rc[2]))
                = ArcRadius(grid) * ArcRadius(grid)

-----------------------------------------------------------------------------
(* Centreline compiler: properties                                         *)

Range(seq) == {seq[i] : i \in DOMAIN seq}

NoDuplicates(seq) == \A i \in DOMAIN seq, j \in DOMAIN seq : seq[i] = seq[j] => i = j

\* The set of directions in which the tile is open.
OpenDirs(tile) ==
    {d \in GridDir : \/ d = "North" /\ open_edges(tile).n
                     \/ d = "South" /\ open_edges(tile).s
                     \/ d = "East"  /\ open_edges(tile).e
                     \/ d = "West"  /\ open_edges(tile).w}

\* Open directions of the tile at `cell`, without the one arrived from.
Remaining(g, cell, arrived) == OpenDirs(tile_at(g, cell[1], cell[2])) \ {arrived}

\* The rule at every cell the traversal stepped into (cells[2], cells[3], ...):
\* the cells already left were left through their single remaining open
\* direction; the last cell, if the build ended there, ended it with DeadEnd
\* (nothing remains, or the single remaining direction leaves the index
\* range) or with AmbiguousBranch over exactly the remaining directions.
C6_SteppedCells ==
    \A i \in 2 .. Len(cells) :
       LET rem == Remaining(grid, cells[i], opposite(dirs[i - 1])) IN
       IF i <= Len(dirs)
       THEN rem = {dirs[i]}
       ELSE \/ pc = "loop"
            \/ /\ pc = "done"
               /\ \/ /\ rem = {}
                     /\ result = DeadEnd(cells[i][1], cells[i][2])
                  \/ /\ Cardinality(rem) > 1
                     /\ result.kind = "AmbiguousBranch"
                     /\ result.row = cells[i][1] /\ result.col = cells[i][2]
                     /\ Range(result.options) = rem
                  \/ /\ \E d \in rem : rem = {d} /\ step_cell(cells[i], d) = None
                     /\ result = DeadEnd(cells[i][1], cells[i][2])

\* The rule at the start cell of a build that succeeded: the loop arrives at
\* the start cell from cells[n], and the direction taken out of it is the
\* single remaining open direction.
C6_StartCell ==
    result.kind = "Ok" =>
       Remaining(grid, cells[1], opposite(dirs[Len(dirs)])) = {dirs[1]}

\* C6: at each cell the traversal visits, the next direction is taken from
\* the tile's open edges excluding the direction arrived from: exactly one
\* remaining, proceed in it; none, DeadEnd; several, AmbiguousBranch.
C6_Original_EveryVisitedCell == C6_SteppedCells /\ C6_StartCell

IsCrossroads2x2 == grid.tiles = TilesOf(Crossroads2x2)

\* C7: on the 2x2 all-Crossroads grid, for every start cell of the grid and
\* every start direction, build_closed_loop returns no centreline and fails
\* with AmbiguousBranch.
C7_Original_AlwaysAmbiguous ==
    (IsCrossroads2x2 /\ start_cell \in GridCells(grid)) =>
       /\ pc \notin {"polyline", "lengths"}
       /\ result.kind # "Ok"
       /\ pc = "done" => result.kind = "AmbiguousBranch"

IsRowScenario ==
    /\ grid.tiles = TilesOf(Row1x3)
    /\ start_cell = <<0, 1>>
    /\ start_dir = "East"

\* C8 as stated: the 1x3 row [StraightH, SpawnPoint, StraightH], built from
\* the middle cell heading East, fails with TooShort.
C8_Original_TooShort ==
    (IsRowScenario /\ pc = "done") => result.kind = "TooShort"

\* C8 (amended): that build fails with DeadEnd, reported at the last cell of
\* the row (row 0, col 2), whose only remaining direction leads off the grid.
C8_RowIsDeadEnd ==
    (IsRowScenario /\ pc = "done") => result = DeadEnd(0, 2)

\* The row scenario has run to its end.
C8_Witness == IsRowScenario /\ pc = "done" /\ cells = <<<<0, 1>>, <<0, 2>>>>

\* The cell the last recorded direction leads to.
LastTarget == step_cell(cells[Len(cells)], dirs[Len(dirs)])

\* C9: stepping into an already visited cell other than the start cell ends
\* the build with NotClosedLoop (and nothing else does); the list of visited
\* cells never holds a cell twice, so no successful build revisits a cell.
C9_RevisitIsNotClosedLoop ==
    /\ NoDuplicates(cells)
    /\ (pc = "done" /\ Len(cells) >= 1 /\ Len(dirs) = Len(cells)) =>
          (LastTarget \in Range(cells) \ {start_cell} <=> result = NotClosedLoop)
    /\ result = NotClosedLoop => (Len(cells) >= 1 /\ Len(dirs) = Len(cells))

\* A traversal that ran into its own path away from the start cell.
C9_Witness ==
    /\ pc = "done"
    /\ result = NotClosedLoop
    /\ Len(cells) >= 4
    /\ LastTarget \in Range(cells) \ {start_cell}

\* In-grid neighbour of `cell` in direction d, or None.
Neighbour(g, cell, d) ==
    LET n == step_cell(cell, d) IN
    IF n # None /\ n \in GridCells(g) THEN n ELSE None

\* Every open edge of `cell` faces a cell of the grid whose facing edge is open.
EdgesMatched(g, cell) ==
    \A d \in OpenDirs(g.tiles[cell[1]][cell[2]]) :
       LET n == Neighbour(g, cell, d) IN
       /\ n # None
       /\ opposite(d) \in OpenDirs(g.tiles[n[1]][n[2]])

\* Cells reachable from S through open edges.
RECURSIVE Connected(_, _)
Connected(g, S) ==
    LET more == S \cup { n \in GridCells(g) :
                           \E c \in S, d \in GridDir :
                              /\ d \in OpenDirs(g.tiles[c[1]][c[2]])
                              /\ Neighbour(g, c, d) = n }
    IN  IF more = S THEN S ELSE Connected(g, more)

\* start lies on a closed degree-2 loop of at least 4 cells and dir is one
\* of the start tile's open edges.
OnClosedLoop(g, start, dir) ==
    /\ start \in GridCells(g)
    /\ dir \in OpenDirs(g.tiles[start[1]][start[2]])
    /\ LET loop == Connected(g, {start}) IN
       /\ Cardinality(loop) >= 4
       /\ \A c \in loop :
             /\ Cardinality(OpenDirs(g.tiles[c[1]][c[2]])) = 2
             /\ EdgesMatched(g, c)

\* Euclidean length of cyclic segment i (0-based): from point i to point
\* i + 1, the last segment closing the loop back to point 0.
SegmentLength(pts, i) ==
    Distance(pts[i + 1], pts[IF i + 1 = Len(pts) THEN 1 ELSE i + 2])

\* The table holds the running f32 sums of the cyclic segment lengths:
\* entry 0 is 0, entry i + 1 is entry i plus segment i, and the total is the
\* last entry plus the closing segment.
IsPrefixSums(pts, table, sum) ==
    LET n == Len(pts) IN
    /\ Len(table) = n
    /\ table[1] = 0
    /\ \A i \in 0 .. (n - 2) :
          table[i + 2] = F32(table[i + 1] + SegmentLength(pts, i))
    /\ sum = F32(table[n] + SegmentLength(pts, n - 1))

\* C10: on a closed degree-2 loop of at least 4 cells, started on the loop
\* along an open edge, build_closed_loop succeeds; total_length is the sum
\* of all N cyclic segment lengths (the closing one included) and
\* cumulative_lengths[i] the sum of the first i of them.
C10_LoopLengths ==
    (pc = "done" /\ OnClosedLoop(grid, start_cell, start_dir)) =>
       /\ result = Ok
       /\ centerline # None
       /\ Len(centerline.points) >= 3
       /\ IsPrefixSums(centerline.points, centerline.cumulative_lengths,
                       centerline.total_length)

\* A six-cell loop was compiled.
C10_Witness ==
    /\ pc = "done"
    /\ OnClosedLoop(grid, start_cell, start_dir)
    /\ result = Ok
    /\ Len(cells) = 6
    /\ centerline.total_length > 0

-----------------------------------------------------------------------------
(* The shipped track: properties                                           *)

\* The road cells of the grid.
RoadCells(g) == {c \in GridCells(g) : g.tiles[c[1]][c[2]] # "Empty"}

\* C11: the shipped 9 x 14 layout is a single closed loop: every open edge
\* of every road tile faces a road tile whose facing edge is open, the
\* SpawnPoint is at row 1, col 4, and build_closed_loop from there heading
\* East succeeds having visited every non-Empty tile exactly once.
C11_ShippedTrackIsOneLoop ==
    /\ rows(grid) = 9 /\ cols(grid) = 14
    /\ start_cell = <<1, 4>>
    /\ \A c \in RoadCells(grid) : EdgesMatched(grid, c)
    /\ NoDuplicates(cells)
    /\ Range(cells) \subseteq RoadCells(grid)
    /\ pc \in {"polyline", "lengths", "done"} => Range(cells) = RoadCells(grid)
    /\ pc = "done" => result = Ok /\ centerline # None

\* The shipped track was compiled to the end.
C11_Witness ==
    /\ grid = MonacoGrid
    /\ pc = "done"
    /\ result = Ok
    /\ Len(cells) = Cardinality(RoadCells(grid))
    /\ Len(cells) > 80

-----------------------------------------------------------------------------
(* Projection onto the centreline: properties                              *)

\* project has gone through all segments and is about to return `best`.
ProjectDone == pc = "project" /\ loop_i = Len(centerline.points)

\* Indices (0-based) of the non-degenerate segments of the closed polyline.
Segments(c) ==
    {i \in 0 .. (Len(c.points) - 1) :
        c.points[i + 1] # c.points[((i + 1) % Len(c.points)) + 1]}

\* The segments whose candidate is at the least distance from w.
Nearest(c, w) ==
    UNION { {i \in DOMAIN dist : \A j \in DOMAIN dist : dist[i] <= dist[j]} :
            dist \in {[i \in Segments(c) |-> project_candidate(c, w, i).distance]} }

\* The smallest index of a non-empty set of indices.
First(I) == CHOOSE i \in I : \A j \in I : i <= j

\* C12: project returns the candidate of least distance over all
\* non-degenerate segments, the one of smallest index among equally near
\* ones, with s = cumulative_length[i] + t * length(segment i).
C12_GlobalMinimumFirstWins ==
    ProjectDone =>
       \E i \in {First(Nearest(centerline, pos))} :
          LET a == centerline.points[i + 1]
              b == centerline.points[((i + 1) % Len(centerline.points)) + 1]
              len2 == DistSq(a, b)
              num == Clamp(Dot(VSub(pos, a), VSub(b, a)), 0, len2)
          IN  /\ best = project_candidate(centerline, pos, i)
              /\ best.s = F32(centerline.cumulative_lengths[i + 1]
                                 + RoundDiv(Distance(a, b) * num, len2))

\* A position away from the polyline with several segments equally near.
C12_Witness ==
    /\ ProjectDone
    /\ best.distance > 0
    /\ Cardinality(Nearest(centerline, pos)) >= 2
    /\ First(Nearest(centerline, pos)) > 0

\* C13: every projection reports s in [0, total_length) and a fraction in
\* [0, 1); a position whose closest point is the polyline's first point is
\* reported with s = 0 and fraction = 0.
C13_Original_HalfOpenRange ==
    progress # <<>> =>
       /\ 0 <= progress.s /\ progress.s < centerline.total_length
       /\ 0 <= progress.fraction /\ progress.fraction < FractionScale
       /\ progress.closest_point = centerline.points[1] =>
             (progress.s = 0 /\ progress.fraction = 0)

\* q lies exactly on segment i (0-based) of the closed polyline.
OnSegment(c, q, i) ==
    LET a == c.points[i + 1]
        b == c.points[((i + 1) % Len(c.points)) + 1]
        d == VSub(b, a)
        r == VSub(q, a)
    IN  /\ a # b
        /\ X(d) * Y(r) - Y(d) * X(r) = 0
        /\ 0 <= Dot(r, d) /\ Dot(r, d) <= Dot(d, d)

\* The segments q lies exactly on.
SegmentsThrough(c, q) == {i \in Segments(c) : OnSegment(c, q, i)}

\* s is within the arc-length span of segment i.
WithinSpan(c, i, s) ==
    /\ c.cumulative_lengths[i + 1] <= s
    /\ s <= F32(c.cumulative_lengths[i + 1] + SegmentLength(c.points, i))

\* The projection of a position lying exactly on the polyline is the
\* position itself, at distance 0, with s in the span of a segment through it.
C14_OnPolylineFixed ==
    (pc = "done" /\ progress # <<>> /\ SegmentsThrough(centerline, pos) # {}) =>
       /\ progress.closest_point = pos
       /\ progress.distance = 0
       /\ \E i \in SegmentsThrough(centerline, pos) :
             WithinSpan(centerline, i, progress.s)

\* A projection of the closest point reported by the projection before it
\* has just been stored.
ReprojectionStored ==
    /\ pc = "project" /\ pc' = "done"
    /\ progress # <<>>
    /\ pos = progress.closest_point

\* Projecting the reported closest point again reports the same closest
\* point and the same s.
C14_ReprojectionSame ==
    [][ReprojectionStored =>
          /\ progress'.closest_point = progress.closest_point
          /\ progress'.s = progress.s]_vars

SamePoint(a, b) == Abs(X(a) - X(b)) <= 1 /\ Abs(Y(a) - Y(b)) <= 1

\* Two arc lengths agree to within tol.
SameArc(s1, s2, tol) == Abs(s1 - s2) <= tol

\* Two arc lengths agree to within tol around the closed loop.
SameArcCyclic(c, s1, s2, tol) ==
    \/ Abs(s1 - s2) <= tol
    \/ c.total_length - Abs(s1 - s2) <= tol

\* The rounding error of an arc length: a unit of the product seg_len * t
\* and half a spacing of the floats at the total length.
ArcTolerance(c) == 1 + F32Ulp(c.total_length)

\* Projecting the reported closest point again reports a closest point and
\* an s that agree with the first ones to within rounding error.
C14_ReprojectionNear ==
    [][ReprojectionStored =>
          /\ SamePoint(progress'.closest_point, progress.closest_point)
          /\ SameArc(progress'.s, progress.s, ArcTolerance(centerline))]_vars

-----------------------------------------------------------------------------
(* Progress of a car driven forward: properties                            *)

\* The projection of a tick after the first has just been stored.
LaterTickStored ==
    /\ pc = "project" /\ pc' = "done"
    /\ progress # <<>>

\* Between the previous place and the current one the car passed (or
\* reached) the polyline's first point.
PassedFirstPoint == pose.cur < pose.prev

\* C15: while the car moves strictly forward along the centreline by less
\* than half a lap per tick, the stored fraction never decreases from one
\* tick to the next, except for the drop when the car passes the polyline's
\* first point.
C15_FractionMonotoneUpToWrap ==
    [][LaterTickStored =>
          IF PassedFirstPoint
          THEN progress'.fraction < progress.fraction
          ELSE progress'.fraction >= progress.fraction]_vars

\* The car has passed the first point and its fraction fell from the last
\* tenth of the lap to the first tenth.
C15_Witness ==
    /\ pc = "done"
    /\ progress # <<>>
    /\ pose.cur < pose.prev
    /\ PlaceArc(centerline, pose.prev) * 10 > centerline.total_length * 9
    /\ progress.fraction * 10 < FractionScale
    /\ progress.fraction > 0

-----------------------------------------------------------------------------
(* Ray casts: properties                                                   *)

\* raycast_to_road_boundary has returned.
RayReturned == ray # <<>> /\ ray.phase = "returned"

\* The numbers k >= 1 of the samples k * step that lie within max_range.
SampleNumbers(r) == 1 .. (r.max_range \div r.step)

\* Sample k of the ray is on road.
SampleOnRoad(g, r, k) == is_road_at(g, ray_point(r.origin, r.dir, k * r.step))

\* The first sample that is not on road, as a set: empty if there is none.
FirstOffRoad(g, r) ==
    {k \in SampleNumbers(r) :
        /\ ~SampleOnRoad(g, r, k)
        /\ \A j \in 1 .. (k - 1) : SampleOnRoad(g, r, j)}

\* C16: for a ray cast from an origin on road whose first off-road sample is
\* k * step, the returned distance d satisfies (k - 1) * step <= d < k * step,
\* the point at d is on road and the point at d + step / 2^8 is not.
C16_RefinedWithinOneStep ==
    (RayReturned /\ ray.dir # <<0, 0>> /\ is_road_at(grid, ray.origin)) =>
       \A k \in FirstOffRoad(grid, ray) :
          LET d == ray.result.distance IN
          /\ (k - 1) * ray.step <= d
          /\ d < k * ray.step
          /\ is_road_at(grid, ray_point(ray.origin, ray.dir, d))
          /\ ~is_road_at(grid, ray_point(ray.origin, ray.dir,
                                         d + ray.step \div 2 ^ REFINE_ITERATIONS))

\* A ray from an origin on road left the road at its third sample or later
\* and the bisection moved the estimate off the last on-road sample.
C16_Witness ==
    /\ RayReturned
    /\ ray.refined
    /\ is_road_at(grid, ray.origin)
    /\ \E k \in FirstOffRoad(grid, ray) :
          k >= 3 /\ ray.result.distance > (k - 1) * ray.step

\* C17: every ray result has 0 <= distance <= max_range and
\* hit = origin + unit direction * distance; the distance is max_range when
\* no sample within max_range is off road; a zero direction gives distance
\* 0 and hit = origin.
C17_RayResultBounds ==
    RayReturned =>
       /\ 0 <= ray.result.distance
       /\ ray.result.distance <= ray.max_range
       /\ ray.result.hit = ray_point(ray.origin, ray.dir, ray.result.distance)
       /\ (ray.dir # <<0, 0>> /\ FirstOffRoad(grid, ray) = {}) =>
             ray.result.distance = ray.max_range
       /\ ray.dir = <<0, 0>> =>
             (ray.result.distance = 0 /\ ray.result.hit = ray.origin)

\* A ray found its samples on road and ended at max_range, which is not
\* itself a sample.
C17_Witness ==
    /\ RayReturned
    /\ ray.dir # <<0, 0>>
    /\ ~ray.refined
    /\ ray.result.distance = ray.max_range
    /\ ray.previous_distance >= ray.step
    /\ ray.max_range % ray.step # 0

-----------------------------------------------------------------------------
(* Observation vector and heading error: properties                        *)

\* A reading divided by its scale and clamped to [lo, 1].
Normalised(value, scale, lo) == Clamp(RoundDiv(value * ObsScale, scale), lo, ObsScale)

\* C18: after build_observation_vector_system the observation vector has
\* exactly NUM_RAYS + 3 entries; entry i <= NUM_RAYS is ray i's distance over
\* the max range, then come speed, heading error and angular velocity in
\* that order, each over its scale; ray and speed entries lie in [0, 1],
\* heading error and angular velocity in [-1, 1], whatever the readings are.
C18_ObservationLayout ==
    /\ DOMAIN observation = 1 .. (NUM_RAYS + 3)
    /\ \A i \in 1 .. (NUM_RAYS + 1) : observation[i] \in 0 .. ObsScale
    /\ \A i \in (NUM_RAYS + 2) .. (NUM_RAYS + 3) :
          observation[i] \in (0 - ObsScale) .. ObsScale
    /\ ~sensors.fresh =>
          /\ \A i \in 1 .. NUM_RAYS :
                observation[i] =
                   Normalised(sensors.ray_distances[i],
                              ObservationConfigDefault.ray_max_range, 0)
          /\ observation[NUM_RAYS + 1] = Normalised(sensors.speed, SpeedNormMax, 0)
          /\ observation[NUM_RAYS + 2] =
                Normalised(sensors.heading_error, PI, 0 - ObsScale)
          /\ observation[NUM_RAYS + 3] =
                Normalised(sensors.angular_velocity, AngularVelocityNormMax,
                           0 - ObsScale)

\* An observation built from readings that exercise the clamps and tell the
\* entries apart: speed above its scale, distinct ray distances, a negative
\* heading error and a positive, unclamped angular velocity.
C18_Witness ==
    /\ ~sensors.fresh
    /\ sensors.speed > SpeedNormMax
    /\ observation[NUM_RAYS + 1] = ObsScale
    /\ observation[1] > 0
    /\ observation[1] < observation[NUM_RAYS]
    /\ observation[NUM_RAYS] < ObsScale
    /\ observation[NUM_RAYS + 2] < 0
    /\ observation[NUM_RAYS + 3] > 0
    /\ observation[NUM_RAYS + 3] < ObsScale

\* C19 as stated: for non-zero forward and tangent vectors the heading
\* error of the tick lies in the half-open interval (-PI, PI].
C19_Original_HalfOpenInterval ==
    (sensors.forward # <<0, 0>> /\ sensors.tangent # <<0, 0>>) =>
        (sensors.heading_error > 0 - PI /\ sensors.heading_error <= PI)

-----------------------------------------------------------------------------
(* Kinematics stepper: properties                                          *)

\* C20 as stated: the stepper does not clamp: after a step the heading has
\* changed by -steering * rotation_speed * dt and, when throttle > 0, the
\* velocity has gained forward(heading) * thrust * throttle * dt (before
\* drag), with steering and throttle as passed, in or out of range.
C20_Original_InputsUsedAsPassed ==
    car.steps > 0 =>
       /\ car.state.heading = car.before.heading + heading_change(car.steering)
       /\ car.throttle > 0 =>
             car.state.velocity =
                dragged(VAdd(car.before.velocity,
                             velocity_gain(car.state.heading, car.throttle)))

\* C24: one step applies heading, thrust, drag, position in that order: the
\* thrust (for a throttle in (0, 1]) acts along the heading after this
\* step's steering change, the position advances by the velocity after drag
\* times dt; steering 0 leaves the heading unchanged, and a throttle <= 0
\* makes the new velocity the old velocity times drag.
C24_StepOrder ==
    car.steps > 0 =>
       /\ car.steering = 0 => car.state.heading = car.before.heading
       /\ car.throttle <= 0 => car.state.velocity = dragged(car.before.velocity)
       /\ (car.throttle > 0 /\ car.throttle <= InputScale) =>
             car.state.velocity =
                dragged(VAdd(car.before.velocity,
                             velocity_gain(car.state.heading, car.throttle)))
       /\ car.state.position =
             VAdd(car.before.position, displacement(car.state.velocity))

\* A step of a moving car that both steers and thrusts, where the thrust
\* along the new heading differs from the thrust along the old one and the
\* drag changes the displacement.
C24_Witness ==
    /\ car.steps > 1
    /\ car.steering # 0
    /\ car.throttle > 0
    /\ car.throttle <= InputScale
    /\ car.before.velocity # <<0, 0>>
    /\ velocity_gain(car.state.heading, car.throttle)
          # velocity_gain(car.before.heading, car.throttle)
    /\ displacement(car.state.velocity)
          # displacement(VAdd(car.before.velocity,
                              velocity_gain(car.state.heading, car.throttle)))

-----------------------------------------------------------------------------
(* Centreline compiler: termination                                        *)

\* Iterations of the traversal loop begun so far: each one that continues
\* appends a cell; the one that leaves the loop appends none.
TraversalIterations ==
    IF cells = <<>> THEN 0
    ELSE IF pc = "loop" THEN Len(cells) - 1
    ELSE Len(cells)

\* The traversal returned an error from inside its loop.
TraversalFailed ==
    pc = "done" /\ cells # <<>> /\ result.kind \notin {"Ok", "TooShort"}

\* The direction of the last iteration, when one was chosen.
LastChoice ==
    IF Len(dirs) = Len(cells) THEN [ok |-> TRUE, dir |-> dirs[Len(dirs)]]
    ELSE IF Len(cells) = 1 THEN [ok |-> TRUE, dir |-> start_dir]
    ELSE choose_next_dir(grid, cells[Len(cells)], opposite(dirs[Len(dirs)]))

\* The last iteration stepped off the grid: to a negative index or to one
\* beyond the last row or column.
LeftTheGrid ==
    /\ TraversalFailed
    /\ LastChoice.ok
    /\ <<cells[Len(cells)][1] + delta(LastChoice.dir)[1],
         cells[Len(cells)][2] + delta(LastChoice.dir)[2]>> \notin GridCells(grid)

\* The traversal loop runs at most as many iterations as the grid has
\* non-Empty cells, its errors are the four of traverse_cells, and leaving
\* the grid is a DeadEnd at the cell that was left.
C25_BoundedTraversal ==
    /\ TraversalIterations <= Cardinality(RoadCells(grid))
    /\ pc = "done" => result.kind \in {"InvalidStartCell", "DeadEnd",
                                        "AmbiguousBranch", "NotClosedLoop",
                                        "TooShort", "Ok"}
    /\ (pc = "done" /\ result.kind = "InvalidStartCell") => cells = <<>>
    /\ LeftTheGrid =>
          result = DeadEnd(cells[Len(cells)][1], cells[Len(cells)][2])

\* More than any loop of the build runs on the grids followed.
MeasureBase == 1000

\* The work the build has left: the phases still to come and the iterations
\* the running loop can still make.
BuildMeasure ==
    CASE pc = "call" -> 4 * MeasureBase
      [] pc = "loop" ->
           3 * MeasureBase + Cardinality(RoadCells(grid)) - TraversalIterations
      [] pc = "polyline" -> 2 * MeasureBase + 1 + Len(cells) - loop_i
      [] pc = "lengths" -> MeasureBase + Len(points) - loop_i
      [] pc = "done" -> 0

\* C25: build_closed_loop terminates for every grid, start cell and start
\* direction: the traversal loop performs at most (number of non-Empty
\* cells) iterations before it steps back into the start cell or returns
\* InvalidStartCell, DeadEnd, AmbiguousBranch or NotClosedLoop; leaving the
\* grid is reported as DeadEnd.  Termination is stated as a measure that is
\* never negative and falls with every step of the build.
C25_BuildTerminates ==
    /\ []C25_BoundedTraversal
    /\ [](BuildMeasure >= 0)
    /\ [][BuildMeasure' < BuildMeasure]_vars

\* A traversal of several cells that ended by stepping beyond the last
\* column or row of the grid.
C25_Witness ==
    /\ LeftTheGrid
    /\ Len(cells) >= 2
    /\ step_cell(cells[Len(cells)], LastChoice.dir) # None

-----------------------------------------------------------------------------
(* Centreline compiler: the edges a traversal passes through               *)

\* The tile of the i-th visited cell.
TileOfCell(i) == tile_at(grid, cells[i][1], cells[i][2])

\* C26 as stated: whenever build_closed_loop succeeds, every step of the
\* traversal passes through mutually open edges: the tile of cells[i] is
\* open in dirs[i] and the tile of the next cell (the start cell after the
\* last one) is open in the opposite direction, the first step out of the
\* start cell and the last step back into it included.
C26_Original_MutuallyOpenSteps ==
    result.kind = "Ok" =>
       \A i \in 1 .. Len(cells) :
          /\ dirs[i] \in OpenDirs(TileOfCell(i))
          /\ opposite(dirs[i]) \in OpenDirs(TileOfCell((i % Len(cells)) + 1))

-----------------------------------------------------------------------------
(* The fixed tick.  game/plugin.rs and agent/plugin.rs add nine systems to *)
(* FixedUpdate, in the four chained sets of sim/sets.rs; one run of the    *)
(* schedule is one tick, and one action below is one system run.  The car  *)
(* carries the components the systems query: Transform, Car,               *)
(* TrackProgress, SensorReadings and ObservationVector.  The HUD system of *)
(* debug/plugin.rs only reads and is left out.  Translations are in model  *)
(* units, velocities in model units per second, rotations in binary        *)
(* degrees, steering and throttle in 1/InputScale, returns in 1/ReturnScale*)
(* of a reward unit.                                                       *)

\* A loop of four straights and four corners with its SpawnPoint in the top
\* row, so that the cell before the spawn cell is a straight.
Ring2x4 == << <<"CornerNW", "StraightH", "SpawnPoint", "CornerNE">>,
              <<"CornerSW", "StraightH", "StraightH", "CornerSE">> >>

\* Tile size of the track the ticks run on: the road of a straight tile is
\* just wider than the car.
TickTileSize == 12 * Scale

\* How many ticks of the schedule are followed from a start state.
MaxTicks == 2

\* pub const CAR_WIDTH / CAR_HEIGHT
CAR_WIDTH == 12 * Scale
CAR_HEIGHT == 6 * Scale

\* TrackGrid::find_spawn: the centre of the spawn cell, facing East.
find_spawn(g) ==
    LET cell == find_spawn_cell(g) IN
    IF cell = None THEN None
    ELSE [position |-> cell_center(g, cell[1], cell[2]), rotation |-> 0]

\* The Track entity spawn_track spawns: the grid, the spawn pose, the
\* centreline compiled from the spawn cell.
Track ==
    [grid |-> grid,
     spawn_position |-> find_spawn(grid).position,
     spawn_rotation |-> find_spawn(grid).rotation,
     centerline |-> centerline]

\* Quat::from_rotation_z: a rotation is held as its angle in (-PI, PI].
from_rotation_z(angle) ==
    LET w == wrap_angle(angle) IN IF w = 0 - PI THEN PI ELSE w

\* `transform.rotation * Vec3::new(x, y, 0.0)`, truncated to a Vec2
rotate(rotation, v) ==
    << RoundDiv(X(v) * Cos(rotation) - Y(v) * Sin(rotation), 1000),
       RoundDiv(X(v) * Sin(rotation) + Y(v) * Cos(rotation), 1000) >>

\* `(transform.rotation * Vec3::X).truncate()`, a unit vector being 1000 long
forward_of(rotation) == << Cos(rotation), Sin(rotation) >>

\* TrackCenterline::project: the `for i in 0..n` loop from segment i on, the
\* running best being b.
RECURSIVE project_from(_, _, _, _)
project_from(c, w, b, i) ==
    IF i >= Len(c.points) THEN b
    ELSE IF segment_end(c.points, i) = c.points[i + 1]
    THEN project_from(c, w, b, i + 1)
    ELSE IF closer(project_candidate(c, w, i).distance, b.distance)
    THEN project_from(c, w, project_candidate(c, w, i), i + 1)
    ELSE project_from(c, w, b, i + 1)

\* TrackCenterline::project
project(c, w) == project_from(c, w, project_init(c), 0)

\* The fields update_track_progress_system copies into TrackProgress.
track_progress(c, w) ==
    LET projection == project(c, w) IN
    [s |-> projection.s, fraction |-> projection.fraction,
     closest_point |-> projection.closest_point,
     tangent |-> projection.tangent, distance |-> projection.distance]

\* ObservationConfig::default().ray_angles: the eleven relative ray angles
\* (-150, -90, -60, -35, -15, 0, 15, 35, 60, 90, 150 degrees) in binary
\* degrees.
ray_angles == << 0 - 107, 0 - 64, 0 - 43, 0 - 25, 0 - 11, 0, 11, 25, 43, 64, 107 >>

\* refine_boundary_distance: the `for _ in 0..8` loop from iteration k on.
RECURSIVE refine_boundary_distance(_, _, _, _, _, _)
refine_boundary_distance(g, origin, dir, inside, outside, k) ==
    IF k = REFINE_ITERATIONS THEN inside
    ELSE LET mid == (inside + outside) \div 2 IN
         IF is_road_at(g, ray_point(origin, dir, mid))
         THEN refine_boundary_distance(g, origin, dir, mid, outside, k + 1)
         ELSE refine_boundary_distance(g, origin, dir, inside, mid, k + 1)

\* raycast_to_road_boundary: the `while distance <= max_range` loop.
RECURSIVE ray_march(_, _, _, _, _, _, _)
ray_march(g, origin, dir, max_range, step, previous_distance, distance) ==
    IF ~in_range(distance, step, max_range) THEN max_range
    ELSE IF ~is_road_at(g, ray_point(origin, dir, distance))
    THEN refine_boundary_distance(g, origin, dir, previous_distance, distance, 0)
    ELSE ray_march(g, origin, dir, max_range, step, distance, distance + step)

\* raycast_to_road_boundary, the distance it returns in model units
raycast_to_road_boundary(g, origin, direction, max_range, ray_step) ==
    LET dir == normalize_or_zero(direction)
        step == Max(ray_step, Scale \div 2) * RayScale
    IN  IF dir = <<0, 0>> THEN 0
        ELSE RoundDiv(ray_march(g, origin, dir, max_range * RayScale, step,
                                0, step), RayScale)

\* `car.velocity.length()` in pixels per second
speed_of(velocity) ==
    Length(<< RoundDiv(X(velocity), Scale), RoundDiv(Y(velocity), Scale) >>)

\* The body of update_sensor_readings_system for the car: what it writes to
\* SensorReadings from the Transform, the Car, the TrackProgress and the
\* grid.
sensor_readings(g, e, tp, previous) ==
    LET position == e.translation
        forward == normalize_or_zero(forward_of(e.rotation))
        heading == to_angle(forward)
    IN  [ray_distances |->
            [i \in 1 .. NUM_RAYS |->
                raycast_to_road_boundary(g, position,
                    << Cos(heading + ray_angles[i]), Sin(heading + ray_angles[i]) >>,
                    ObservationConfigDefault.ray_max_range,
                    ObservationConfigDefault.ray_step)],
         speed |-> speed_of(e.velocity),
         heading_error |-> signed_angle_between(forward, tp.tangent),
         angular_velocity |-> wrap_angle(heading - previous.previous_heading) * FixedHz,
         previous_heading |-> heading]

\* The four corners of the car's rectangle in world space, in the order
\* collision_detection_system tests them.
car_corners(e) ==
    LET half_w == CAR_WIDTH \div 2
        half_h == CAR_HEIGHT \div 2
        local_corners == << <<half_w, half_h>>, <<half_w, 0 - half_h>>,
                            <<0 - half_w, half_h>>, <<0 - half_w, 0 - half_h>> >>
    IN  [i \in 1 .. 4 |-> VAdd(e.translation, rotate(e.rotation, local_corners[i]))]

\* collision_detection_system writes a CollisionEvent: some corner is not on
\* the road.
off_road(g, e) ==
    \E i \in 1 .. 4 : ~is_road_at(g, car_corners(e)[i])

\* A handler that leaves the car its velocity.
reset_on_collision_keep_velocity(track, e) ==
    [e EXCEPT !.translation = track.spawn_position,
              !.rotation = from_rotation_z(track.spawn_rotation)]

\* The loop body of handle_collision_system: the car back at the spawn
\* pose, at rest.
reset_on_collision(track, e) ==
    [translation |-> track.spawn_position,
     rotation |-> from_rotation_z(track.spawn_rotation),
     velocity |-> <<0, 0>>]

\* reset_car_to_spawn (game/episode.rs)
reset_car_to_spawn(track, e) ==
    [translation |-> track.spawn_position,
     rotation |-> from_rotation_z(track.spawn_rotation),
     velocity |-> <<0, 0>>]

\* Resolution of a return: ReturnScale units make a reward of 1.0.
ReturnScale == 1000

\* `time.delta_secs()` of the fixed timestep, in microseconds.
DeltaMicros == RoundDiv(1000000, FixedHz)

\* impl Default for EpisodeConfig; timeout_s is in microseconds, the three
\* fractions in 1/FractionScale, the penalty and the bonus in 1/ReturnScale.
EpisodeConfigDefault ==
    [timeout_s |-> 30 * 1000000,
     lap_arm_fraction |-> (25 * FractionScale) \div 100,
     lap_wrap_from_fraction |-> (85 * FractionScale) \div 100,
     lap_wrap_to_fraction |-> (15 * FractionScale) \div 100,
     progress_reward_scale |-> 100,
     crash_penalty |-> 0 - 10 * ReturnScale,
     lap_bonus |-> 100 * ReturnScale,
     moving_average_window |-> 20]

\* Option<EpisodeEndReason>::None
NoReason == "None"

\* impl Default for EpisodeState
EpisodeStateDefault ==
    [current_episode |-> 1,
     ticks_in_episode |-> 0,
     previous_progress_fraction |-> 0,
     lap_armed |-> FALSE,
     current_return |-> 0,
     current_best_progress_fraction |-> 0,
     current_crashes |-> 0,
     last_end_reason |-> NoReason,
     last_episode_return |-> 0,
     last_episode_best_progress_fraction |-> 0,
     last_episode_crashes |-> 0]

\* impl Default for EpisodeMovingAverages
EpisodeMovingAveragesDefault ==
    [returns |-> <<>>, best_progress_fractions |-> <<>>, crash_counts |-> <<>>,
     return_mean |-> 0, best_progress_mean |-> 0, crash_mean |-> 0]

\* u32::saturating_add(1): the counters of the model stay far below u32::MAX.
saturating_add_1(n) == n + 1

\* `while buffer.len() > limit.max(1) { buffer.pop_front() }`
RECURSIVE pop_front_over(_, _)
pop_front_over(buffer, limit) ==
    IF Len(buffer) > Max(limit, 1) THEN pop_front_over(Tail(buffer), limit)
    ELSE buffer

\* A push that drops the newest entries once the buffer is full.
push_with_limit_keep_oldest(buffer, value, limit) ==
    SubSeq(Append(buffer, value), 1,
           IF Len(buffer) + 1 > Max(limit, 1) THEN Max(limit, 1)
           ELSE Len(buffer) + 1)

\* push_with_limit
push_with_limit(buffer, value, limit) ==
    pop_front_over(Append(buffer, value), limit)

RECURSIVE Sum(_)
Sum(values) == IF values = <<>> THEN 0 ELSE Head(values) + Sum(Tail(values))

\* mean, to the resolution of the values
mean(values) ==
    IF values = <<>> THEN 0 ELSE RoundDiv(Sum(values), Len(values))

\* The wrap of progress_delta into (-0.5, 0.5]
wrap_progress_delta(progress_delta) ==
    IF 2 * progress_delta > FractionScale THEN progress_delta - FractionScale
    ELSE IF 2 * progress_delta < 0 - FractionScale
    THEN progress_delta + FractionScale
    ELSE progress_delta

\* `progress_delta * config.progress_reward_scale`, in 1/ReturnScale
progress_reward(config, progress_delta) ==
    RoundDiv(progress_delta * config.progress_reward_scale,
             FractionScale \div ReturnScale)

\* The timeout noticed one tick late.
timed_out_a_tick_late(config, ticks_in_episode) ==
    (ticks_in_episode - 1) * DeltaMicros >= config.timeout_s

\* `(ticks_in_episode as f32) * time.delta_secs() >= config.timeout_s`
timed_out(config, ticks_in_episode) ==
    ticks_in_episode * DeltaMicros >= config.timeout_s

\* `lap_armed && previous_progress_fraction >= lap_wrap_from_fraction
\*  && progress.fraction <= lap_wrap_to_fraction`
lap_complete(config, lap_armed, previous_progress_fraction, fraction) ==
    /\ lap_armed
    /\ previous_progress_fraction >= config.lap_wrap_from_fraction
    /\ fraction <= config.lap_wrap_to_fraction

\* An end reason that ranks a completed lap above a crash.
end_reason_lap_first(crashed, lap_done, timeout) ==
    IF lap_done THEN "LapComplete"
    ELSE IF crashed THEN "Crash"
    ELSE IF timeout THEN "Timeout"
    ELSE NoReason

\* `let end_reason = if crashed { .. } else if lap_complete { .. } ..`
end_reason(crashed, lap_done, timeout) ==
    IF crashed THEN "Crash"
    ELSE IF lap_done THEN "LapComplete"
    ELSE IF timeout THEN "Timeout"
    ELSE NoReason

\* finalize_episode: the moving averages after the finished episode's values
\* are pushed.
finalize_moving_averages(config, st, avg) ==
    LET returns == push_with_limit(avg.returns, st.current_return,
                                   config.moving_average_window)
        bests == push_with_limit(avg.best_progress_fractions,
                                 st.current_best_progress_fraction,
                                 config.moving_average_window)
        crashes == push_with_limit(avg.crash_counts,
                                   st.current_crashes * ReturnScale,
                                   config.moving_average_window)
    IN  [returns |-> returns, best_progress_fractions |-> bests,
         crash_counts |-> crashes,
         return_mean |-> mean(returns), best_progress_mean |-> mean(bests),
         crash_mean |-> mean(crashes)]

\* finalize_episode: the episode state after the finished episode is
\* recorded and the accumulators are reset.
finalize_episode(st, reason) ==
    [current_episode |-> saturating_add_1(st.current_episode),
     ticks_in_episode |-> 0,
     previous_progress_fraction |-> 0,
     lap_armed |-> FALSE,
     current_return |-> 0,
     current_best_progress_fraction |-> 0,
     current_crashes |-> 0,
     last_end_reason |-> reason,
     last_episode_return |-> st.current_return,
     last_episode_best_progress_fraction |-> st.current_best_progress_fraction,
     last_episode_crashes |-> st.current_crashes]

\* episode_loop_system up to the choice of the end reason: the counters and
\* the return of this tick, and the three conditions.
episode_tick(config, st, fraction, crashed) ==
    LET progress_delta ==
            wrap_progress_delta(fraction - st.previous_progress_fraction)
        lap_armed == st.lap_armed \/ fraction >= config.lap_arm_fraction
        lap_done == lap_complete(config, lap_armed,
                                 st.previous_progress_fraction, fraction)
        ticks == saturating_add_1(st.ticks_in_episode)
    IN  [state |->
            [st EXCEPT
               !.ticks_in_episode = ticks,
               !.current_best_progress_fraction = Max(@, fraction),
               !.lap_armed = lap_armed,
               !.current_crashes = IF crashed THEN saturating_add_1(@) ELSE @,
               !.current_return =
                    @ + progress_reward(config, progress_delta)
                      + (IF crashed THEN config.crash_penalty ELSE 0)
                      + (IF lap_done THEN config.lap_bonus ELSE 0)],
         reason |-> end_reason(crashed, lap_done, timed_out(config, ticks))]

\* The systems added to FixedUpdate.
Systems ==
    { "keyboard_action_input_system", "action_smoothing_system",
      "car_physics_system", "collision_detection_system",
      "handle_collision_system", "update_track_progress_system",
      "episode_loop_system", "update_sensor_readings_system",
      "build_observation_vector_system" }

\* `.in_set(SimSet::..)`: the set each system is added to.
SystemSet(s) ==
    CASE s \in {"keyboard_action_input_system", "action_smoothing_system"}
            -> "Input"
      [] s = "car_physics_system" -> "Physics"
      [] s \in {"collision_detection_system", "handle_collision_system"}
            -> "Collision"
      [] OTHER -> "Measurement"

\* `configure_sets(FixedUpdate, (Input, Physics, Collision, Measurement).chain())`
SimSetChain == << "Input", "Physics", "Collision", "Measurement" >>

SetIndex(set) == CHOOSE i \in 1 .. Len(SimSetChain) : SimSetChain[i] = set

\* The orderings declared between systems of one set: the `.chain()` of each
\* tuple and the two `.after(update_track_progress_system)`.
SystemOrderings ==
    { << "keyboard_action_input_system", "action_smoothing_system" >>,
      << "collision_detection_system", "handle_collision_system" >>,
      << "update_track_progress_system", "episode_loop_system" >>,
      << "update_track_progress_system", "update_sensor_readings_system" >>,
      << "update_sensor_readings_system", "build_observation_vector_system" >> }

\* System t must have finished before system s starts.
must_precede(t, s) ==
    \/ SetIndex(SystemSet(t)) < SetIndex(SystemSet(s))
    \/ << t, s >> \in SystemOrderings

\* System s has run in the current tick.
HasRun(s) == \E i \in 1 .. Len(sim.ran) : sim.ran[i] = s

\* Every system has run: the schedule is between two ticks.
TickOver == Len(sim.ran) = Cardinality(Systems)

\* The executor may start system s now.
CanRun(s) ==
    /\ pc = "done"
    /\ entity # <<>>
    /\ ~TickOver
    /\ ~HasRun(s)
    /\ \A t \in Systems : must_precede(t, s) => HasRun(t)

\* What a system run leaves in `sim`.  Besides the tick count and the
\* systems run, `sim` keeps for the properties: `before`, the car and the
\* episode resources as the tick found them; `stepped`, `settled`, the car
\* as car_physics_system and handle_collision_system left it; `projected`,
\* `sensed`, the car as the projection and the sensors read it; `judged`,
\* what episode_loop_system decided, and the accumulators it finalised.
Ran(s) == [sim EXCEPT !.ran = Append(@, s)]

\* MessageReader::read().next() on a reader whose cursor is `cursor`.
is_unread(cursor) == cursor < collision_events.sent

\* The first tick count at which the timeout condition holds.
TimeoutTicks ==
    (EpisodeConfigDefault.timeout_s + DeltaMicros - 1) \div DeltaMicros

\* States a run is followed from, each the state between two ticks: the car
\* as spawned; the car left at the spawn pose until the timeout is near; the
\* car on the straight before the start line, fast or slow and turning,
\* early in the episode or at its last tick; the car on the far straight.
\* `back` is how far behind the spawn position the car is, `down` how far
\* below it, `episodes` how many episodes have ended before this one, each
\* by timeout with the car left at the spawn pose.
TickStarts ==
    { [kind |-> "spawned", back |-> 0, down |-> 0, rotation |-> 0,
       velocity |-> <<0, 0>>, ticks |-> 0, episodes |-> 0],
      [kind |-> "parked", back |-> 0, down |-> 0, rotation |-> 0,
       velocity |-> <<0, 0>>, ticks |-> TimeoutTicks - MaxTicks, episodes |-> 0],
      [kind |-> "driving", back |-> 10 * Scale, down |-> 0, rotation |-> 0,
       velocity |-> <<600 * Scale, 0>>, ticks |-> 300,
       episodes |-> EpisodeConfigDefault.moving_average_window],
      [kind |-> "driving", back |-> 10 * Scale, down |-> 0, rotation |-> 0,
       velocity |-> <<600 * Scale, 0>>, ticks |-> TimeoutTicks - 1,
       episodes |-> 0],
      [kind |-> "driving", back |-> 10 * Scale, down |-> 0, rotation |-> 3,
       velocity |-> <<60 * Scale, 0>>, ticks |-> 300, episodes |-> 0],
      [kind |-> "driving", back |-> 10 * Scale, down |-> 0, rotation |-> 3,
       velocity |-> <<60 * Scale, 0>>, ticks |-> TimeoutTicks - 1,
       episodes |-> 0],
      [kind |-> "driving", back |-> TickTileSize \div 2, down |-> TickTileSize,
       rotation |-> PI, velocity |-> <<0 - 300 * Scale, 0>>, ticks |-> 300,
       episodes |-> 0] }

\* The episode that ends by timeout with the car never moved from the spawn
\* pose: its return and its best fraction are those of the spawn position.
parked_episode(track) ==
    LET fraction == project(track.centerline, track.spawn_position).fraction IN
    [return |-> progress_reward(EpisodeConfigDefault, fraction),
     best |-> fraction]

\* The startup of main.rs: spawn_track compiles the centreline of the grid
\* from its spawn cell heading East; the resources are initialised once it
\* succeeds.
InitTick ==
    /\ grid = MakeGrid(Ring2x4, TickTileSize)
    /\ query = None
    /\ start_cell = find_spawn_cell(grid)
    /\ start_dir = "East"
    /\ AuxIdle
    /\ pc = "call"
    /\ cells = <<>>
    /\ dirs = <<>>
    /\ visited = {}
    /\ current = start_cell
    /\ incoming = opposite(start_dir)
    /\ loop_i = 0
    /\ points = <<>>
    /\ cumulative = <<>>
    /\ total = 0
    /\ result = [kind |-> "none"]
    /\ centerline = None

\* setup_game spawns the car at the track's spawn pose, and the plugins
\* initialise their resources; the run is then followed from one of
\* TickStarts.
SetupGame ==
    /\ pc = "done"
    /\ result.kind = "Ok"
    /\ entity = <<>>
    /\ \E start \in TickStarts :
       \E e \in { [translation |->
                      << X(Track.spawn_position) - start.back,
                         Y(Track.spawn_position) - start.down >>,
                   rotation |-> from_rotation_z(start.rotation),
                   velocity |-> start.velocity] } :
       \E tp \in { IF start.kind = "spawned" THEN TrackProgressDefault
                   ELSE track_progress(centerline, e.translation) } :
       \E sr \in { IF start.kind = "spawned" THEN SensorReadingsDefault
                   ELSE sensor_readings(grid, e, tp,
                           [previous_heading |-> e.rotation]) } :
       \E past \in { parked_episode(Track) } :
          /\ ~off_road(grid, e)
          /\ entity' = e
          /\ progress' = tp
          /\ sensors' = sr
          /\ observation' = IF start.kind = "spawned"
                            THEN ObservationVectorDefault
                            ELSE observation_values(sr)
          /\ episode_state' =
                [EpisodeStateDefault EXCEPT
                   !.current_episode = 1 + start.episodes,
                   !.ticks_in_episode = start.ticks,
                   !.previous_progress_fraction = tp.fraction,
                   !.lap_armed =
                        tp.fraction >= EpisodeConfigDefault.lap_arm_fraction,
                   !.current_return =
                        progress_reward(EpisodeConfigDefault, tp.fraction),
                   !.current_best_progress_fraction = tp.fraction,
                   !.last_end_reason =
                        IF start.episodes > 0 THEN "Timeout" ELSE NoReason,
                   !.last_episode_return =
                        IF start.episodes > 0 THEN past.return ELSE 0,
                   !.last_episode_best_progress_fraction =
                        IF start.episodes > 0 THEN past.best ELSE 0]
          /\ moving_averages' =
                IF start.episodes = 0 THEN EpisodeMovingAveragesDefault
                ELSE [returns |-> [i \in 1 .. start.episodes |-> past.return],
                      best_progress_fractions |->
                         [i \in 1 .. start.episodes |-> past.best],
                      crash_counts |-> [i \in 1 .. start.episodes |-> 0],
                      return_mean |-> past.return,
                      best_progress_mean |-> past.best,
                      crash_mean |-> 0]
    /\ action_state' = [desired |-> [steering |-> 0, throttle |-> 0],
                        applied |-> [steering |-> 0, throttle |-> 0]]
    /\ collision_events' = [sent |-> 0, handled |-> 0, counted |-> 0]
    /\ sim' = [tick |-> 0, ran |-> <<>>, before |-> <<>>, stepped |-> <<>>,
               settled |-> <<>>, projected |-> <<>>, sensed |-> <<>>,
               judged |-> <<>>]
    /\ UNCHANGED <<grid, query, buildVars, pos, best, pose, ray, car>>

\* CarAction::clamped
clamped(action) ==
    [steering |-> Clamp(action.steering, 0 - InputScale, InputScale),
     throttle |-> Clamp(action.throttle, 0, InputScale)]

\* keyboard_action_input_system, the first system of a tick: the schedule
\* starts a new run once every system of the last one has finished.  The
\* keys held are this tick's input.
KeyboardActionInput ==
    /\ pc = "done"
    /\ entity # <<>>
    /\ sim.ran = <<>> \/ TickOver
    /\ sim.tick < MaxTicks
    /\ \E keys \in SUBSET {"KeyA", "KeyD", "KeyW"} :
          LET steering == (IF "KeyD" \in keys THEN InputScale ELSE 0)
                            - (IF "KeyA" \in keys THEN InputScale ELSE 0)
              throttle == IF "KeyW" \in keys THEN InputScale ELSE 0
          IN  action_state' =
                 [action_state EXCEPT
                    !.desired = clamped([steering |-> steering,
                                         throttle |-> throttle])]
    /\ sim' = [tick |-> sim.tick + 1,
               ran |-> << "keyboard_action_input_system" >>,
               before |-> [entity |-> entity,
                           episode_state |-> episode_state,
                           moving_averages |-> moving_averages,
                           sent |-> collision_events.sent],
               stepped |-> <<>>, settled |-> <<>>, projected |-> <<>>,
               sensed |-> <<>>, judged |-> <<>>]
    /\ UNCHANGED <<grid, query, buildVars, projVars, senseVars, car, entity,
                   collision_events, episode_state, moving_averages>>

\* action_smoothing_system with ActionSmoothing::default(), whose `enabled`
\* is false: applied becomes the clamped desired action.
ActionSmoothing ==
    /\ CanRun("action_smoothing_system")
    /\ action_state' = [action_state EXCEPT !.applied = clamped(action_state.desired)]
    /\ sim' = Ran("action_smoothing_system")
    /\ UNCHANGED <<grid, query, buildVars, projVars, senseVars, car, entity,
                   collision_events, episode_state, moving_averages>>

\* car_physics_system: one step of the stepper from the car's Transform and
\* velocity, written back to them.
CarPhysics ==
    /\ CanRun("car_physics_system")
    /\ \E state \in { step_car_dynamics(
                         [position |-> entity.translation,
                          velocity |-> entity.velocity,
                          heading |-> to_angle(forward_of(entity.rotation))],
                         action_state.applied.steering,
                         action_state.applied.throttle) } :
       \E e \in { [translation |-> state.position,
                   rotation |-> from_rotation_z(state.heading),
                   velocity |-> state.velocity] } :
          /\ entity' = e
          /\ sim' = [Ran("car_physics_system") EXCEPT !.stepped = e]
    /\ UNCHANGED <<grid, query, buildVars, projVars, senseVars, car,
                   action_state, collision_events, episode_state,
                   moving_averages>>

\* collision_detection_system: one CollisionEvent if a corner of the car is
\* off the road.
CollisionDetection ==
    /\ CanRun("collision_detection_system")
    /\ collision_events' =
          IF off_road(grid, entity)
          THEN [collision_events EXCEPT !.sent = @ + 1]
          ELSE collision_events
    /\ sim' = Ran("collision_detection_system")
    /\ UNCHANGED <<grid, query, buildVars, projVars, senseVars, car, entity,
                   action_state, episode_state, moving_averages>>

\* handle_collision_system: returns at once if its reader has no unread
\* event, resets the car otherwise.
HandleCollision ==
    /\ CanRun("handle_collision_system")
    /\ \E e \in { IF is_unread(collision_events.handled)
                   THEN reset_on_collision(Track, entity)
                   ELSE entity } :
          /\ entity' = e
          /\ sim' = [Ran("handle_collision_system") EXCEPT !.settled = e]
    /\ collision_events' =
          IF is_unread(collision_events.handled)
          THEN [collision_events EXCEPT !.handled = @ + 1]
          ELSE collision_events
    /\ UNCHANGED <<grid, query, buildVars, projVars, senseVars, car,
                   action_state, episode_state, moving_averages>>

\* update_track_progress_system
UpdateTrackProgress ==
    /\ CanRun("update_track_progress_system")
    /\ progress' = track_progress(centerline, entity.translation)
    /\ sim' = [Ran("update_track_progress_system") EXCEPT !.projected = entity]
    /\ UNCHANGED <<grid, query, buildVars, pos, best, pose, senseVars, car,
                   entity, action_state, collision_events, episode_state,
                   moving_averages>>

\* episode_loop_system
EpisodeLoop ==
    /\ CanRun("episode_loop_system")
    /\ \E crashed \in { is_unread(collision_events.counted) } :
       \E tick \in { episode_tick(EpisodeConfigDefault, episode_state,
                                  progress.fraction, crashed) } :
          /\ collision_events' =
                IF crashed THEN [collision_events EXCEPT !.counted = @ + 1]
                ELSE collision_events
          /\ IF tick.reason # NoReason
             THEN /\ entity' = IF tick.reason # "Crash"
                               THEN reset_car_to_spawn(Track, entity)
                               ELSE entity
                  /\ episode_state' = finalize_episode(tick.state, tick.reason)
                  /\ moving_averages' =
                        finalize_moving_averages(EpisodeConfigDefault,
                                                 tick.state, moving_averages)
             ELSE /\ episode_state' =
                        [tick.state EXCEPT
                           !.previous_progress_fraction = progress.fraction]
                  /\ UNCHANGED <<entity, moving_averages>>
          /\ sim' = [Ran("episode_loop_system") EXCEPT
                        !.judged = [crashed |-> crashed,
                                    reason |-> tick.reason,
                                    final |-> tick.state]]
    /\ UNCHANGED <<grid, query, buildVars, projVars, senseVars, car,
                   action_state>>

\* update_sensor_readings_system
UpdateSensorReadings ==
    /\ CanRun("update_sensor_readings_system")
    /\ sensors' = sensor_readings(grid, entity, progress, sensors)
    /\ sim' = [Ran("update_sensor_readings_system") EXCEPT
                  !.sensed = [entity |-> entity, tangent |-> progress.tangent]]
    /\ UNCHANGED <<grid, query, buildVars, projVars, ray, observation, car,
                   entity, action_state, collision_events, episode_state,
                   moving_averages>>

\* build_observation_vector_system
BuildObservationVector ==
    /\ CanRun("build_observation_vector_system")
    /\ observation' = observation_values(sensors)
    /\ sim' = Ran("build_observation_vector_system")
    /\ UNCHANGED <<grid, query, buildVars, projVars, ray, sensors, car,
                   entity, action_state, collision_events, episode_state,
                   moving_averages>>

NextTick ==
    \/ NextBuild
    \/ SetupGame
    \/ KeyboardActionInput
    \/ ActionSmoothing
    \/ CarPhysics
    \/ CollisionDetection
    \/ HandleCollision
    \/ UpdateTrackProgress
    \/ EpisodeLoop
    \/ UpdateSensorReadings
    \/ BuildObservationVector

SpecTick == InitTick /\ [][NextTick]_vars

-----------------------------------------------------------------------------
(* The fixed tick: the order of the systems                                *)

\* The position of system s in this tick's run, 0 if it has not run yet.
RunIndex(s) ==
    IF HasRun(s) THEN CHOOSE i \in 1 .. Len(sim.ran) : sim.ran[i] = s ELSE 0

\* No system has run twice in this tick.
OncePerTick ==
    \A i, j \in 1 .. Len(sim.ran) : sim.ran[i] = sim.ran[j] => i = j

\* The systems in the order the tick is said to run them.
PipelineOrder ==
    << "keyboard_action_input_system", "action_smoothing_system",
       "car_physics_system", "collision_detection_system",
       "handle_collision_system", "update_track_progress_system",
       "update_sensor_readings_system", "build_observation_vector_system" >>

\* Each system of the pipeline that has run was preceded by every system
\* listed before it.
RunsInPipelineOrder ==
    \A i, j \in 1 .. Len(PipelineOrder) :
       (i < j /\ HasRun(PipelineOrder[j])) =>
          /\ HasRun(PipelineOrder[i])
          /\ RunIndex(PipelineOrder[i]) < RunIndex(PipelineOrder[j])

\* Translation and rotation of a car.
Pose(e) == [translation |-> e.translation, rotation |-> e.rotation]

\* C21 as stated: in every tick the systems run in the order input and
\* smoothing, physics, collision detection and handling, projection, sensor
\* readings, observation vector, each once, and both the projection and the
\* sensor readings are computed from the pose this tick's physics step
\* produced (as the Collision phase of the tick left it), never from another
\* pose.
C21_Original_PipelineOnNewPose ==
    sim # <<>> =>
       /\ OncePerTick
       /\ RunsInPipelineOrder
       /\ HasRun("update_track_progress_system") =>
             Pose(sim.projected) = Pose(sim.settled)
       /\ HasRun("update_sensor_readings_system") =>
             Pose(sim.sensed.entity) = Pose(sim.settled)

-----------------------------------------------------------------------------
(* The fixed tick: collisions                                              *)

\* The CollisionEvents written so far in this tick.
WrittenThisTick == collision_events.sent - sim.before.sent

\* The car at the track's spawn pose, at rest.
AtSpawnAtRest(e) ==
    /\ e.translation = Track.spawn_position
    /\ e.rotation = Track.spawn_rotation
    /\ e.velocity = <<0, 0>>

\* A system of the Measurement set has run in this tick.
MeasurementBegun ==
    \E s \in Systems : SystemSet(s) = "Measurement" /\ HasRun(s)

\* C22: in a tick where a corner of the car is off the road after the
\* physics step, exactly one CollisionEvent is written and the Collision
\* phase leaves the car at the spawn pose at rest, which is the car the
\* Measurement phase starts from; in a tick where the four corners are on
\* the road no event is written and the Collision phase leaves the car as
\* the physics step left it.  No Measurement system runs before the
\* Collision phase is over.
C22_CollisionResetsBeforeMeasurement ==
    (sim # <<>> /\ sim.tick > 0) =>
       /\ WrittenThisTick \in {0, 1}
       /\ ~HasRun("collision_detection_system") => WrittenThisTick = 0
       /\ HasRun("collision_detection_system") =>
             WrittenThisTick = (IF off_road(grid, sim.stepped) THEN 1 ELSE 0)
       /\ HasRun("handle_collision_system") =>
             IF off_road(grid, sim.stepped)
             THEN AtSpawnAtRest(sim.settled)
             ELSE sim.settled = sim.stepped
       /\ (HasRun("handle_collision_system") /\ ~MeasurementBegun) =>
             entity = sim.settled
       /\ MeasurementBegun =>
             /\ HasRun("handle_collision_system")
             /\ sim.projected = sim.settled

\* A moving car left the road in this tick and has been put back at the
\* spawn pose before any Measurement system ran.
C22_Witness ==
    /\ sim # <<>>
    /\ sim.tick > 0
    /\ HasRun("handle_collision_system")
    /\ ~MeasurementBegun
    /\ off_road(grid, sim.stepped)
    /\ sim.stepped.velocity # <<0, 0>>
    /\ sim.stepped.translation # Track.spawn_position
    /\ WrittenThisTick = 1
    /\ AtSpawnAtRest(entity)

-----------------------------------------------------------------------------
(* The fixed tick: the return of an episode                                *)

\* The episode state as this tick found it.
EpisodeBefore == sim.before.episode_state

\* The return this tick's progress adds: the wrapped change of the fraction
\* times the reward scale.
ProgressRewardOfTick ==
    progress_reward(EpisodeConfigDefault,
        wrap_progress_delta(progress.fraction
                              - EpisodeBefore.previous_progress_fraction))

\* C23 as stated: the lap bonus is added to the return only in a tick that
\* ends the episode with LapComplete and the crash penalty only in a tick
\* that ends it with Crash: a tick that ends nothing adds the progress
\* reward alone, and the return of a finished episode is the return before
\* its last tick plus that tick's progress reward, plus the bonus if the
\* reason is LapComplete, plus the penalty if it is Crash.
C23_Original_BonusOnlyOnLap ==
    (sim # <<>> /\ HasRun("episode_loop_system")) =>
       IF sim.judged.reason = NoReason
       THEN episode_state.current_return =
               EpisodeBefore.current_return + ProgressRewardOfTick
       ELSE episode_state.last_episode_return =
               EpisodeBefore.current_return + ProgressRewardOfTick
                 + (IF sim.judged.reason = "LapComplete"
                    THEN EpisodeConfigDefault.lap_bonus ELSE 0)
                 + (IF sim.judged.reason = "Crash"
                    THEN EpisodeConfigDefault.crash_penalty ELSE 0)

-----------------------------------------------------------------------------
(* The fixed tick: the pose the sensors read                               *)

\* C27 as stated: within one tick update_sensor_readings_system reads the
\* car pose update_track_progress_system projected, under every schedule the
\* declared orderings allow, so that the heading error compares the car's
\* forward vector with the tangent computed for the pose the sensors read.
C27_Original_SensorsReadProjectedPose ==
    (sim # <<>> /\ HasRun("update_sensor_readings_system")) =>
       /\ Pose(sim.sensed.entity) = Pose(sim.projected)
       /\ sim.sensed.tangent =
             track_progress(centerline, sim.sensed.entity.translation).tangent

-----------------------------------------------------------------------------
(* The fixed tick: how an episode ends                                     *)

\* The episode that was running when this tick began has ended in this tick
\* with reason r.
EndedWith(r) ==
    /\ episode_state.current_episode = EpisodeBefore.current_episode + 1
    /\ episode_state.last_end_reason = r

\* The lap is armed in this tick: it was before, or the fraction projected
\* in this tick reaches lap_arm_fraction.
ArmedInTick ==
    \/ EpisodeBefore.lap_armed
    \/ progress.fraction >= EpisodeConfigDefault.lap_arm_fraction

\* The lap-completion condition of this tick.
LapCompletedInTick ==
    /\ ArmedInTick
    /\ EpisodeBefore.previous_progress_fraction
          >= EpisodeConfigDefault.lap_wrap_from_fraction
    /\ progress.fraction <= EpisodeConfigDefault.lap_wrap_to_fraction

\* The timeout condition of this tick, ticks_in_episode counting it.
TimedOutInTick ==
    (EpisodeBefore.ticks_in_episode + 1) * DeltaMicros
        >= EpisodeConfigDefault.timeout_s

\* C28: once episode_loop_system has run in a tick, the episode has ended
\* with Crash if a CollisionEvent was written in the tick, whatever the
\* other conditions; otherwise with LapComplete if the lap is armed, the
\* previous fraction is at least lap_wrap_from_fraction and the current one
\* at most lap_wrap_to_fraction; otherwise with Timeout if the tick count
\* times dt reaches timeout_s; otherwise the episode goes on and
\* previous_progress_fraction is the current fraction.
C28_EndReasonPriority ==
    (sim # <<>> /\ HasRun("episode_loop_system")) =>
       /\ sim.judged.crashed <=> WrittenThisTick = 1
       /\ IF WrittenThisTick = 1 THEN EndedWith("Crash")
          ELSE IF LapCompletedInTick THEN EndedWith("LapComplete")
          ELSE IF TimedOutInTick THEN EndedWith("Timeout")
          ELSE /\ episode_state.current_episode = EpisodeBefore.current_episode
               /\ episode_state.last_end_reason = EpisodeBefore.last_end_reason
               /\ episode_state.previous_progress_fraction = progress.fraction
               /\ episode_state.lap_armed = ArmedInTick

\* A crash read in a tick in which the lap-completion and the timeout
\* conditions hold as well: the episode ended with Crash.
C28_Witness ==
    /\ sim # <<>>
    /\ HasRun("episode_loop_system")
    /\ WrittenThisTick = 1
    /\ LapCompletedInTick
    /\ TimedOutInTick
    /\ EndedWith("Crash")

-----------------------------------------------------------------------------
(* The fixed tick: the record of a finished episode                        *)

\* The moving averages as this tick found them.
AveragesBefore == sim.before.moving_averages

\* max(moving_average_window, 1)
WindowLimit == Max(EpisodeConfigDefault.moving_average_window, 1)

\* Buffer `new` is buffer `old` with `value` pushed at the back and, beyond
\* WindowLimit entries, the oldest entries dropped.
PushedOldestDropped(old, new, value) ==
    LET dropped == Len(old) + 1 - Len(new) IN
    /\ Len(new) = (IF Len(old) + 1 > WindowLimit THEN WindowLimit
                   ELSE Len(old) + 1)
    /\ new[Len(new)] = value
    /\ \A k \in 1 .. (Len(new) - 1) : new[k] = old[k + dropped]

\* The per-episode accumulators are at their starting values.
AccumulatorsReset ==
    /\ episode_state.ticks_in_episode = 0
    /\ episode_state.previous_progress_fraction = 0
    /\ episode_state.lap_armed = FALSE
    /\ episode_state.current_return = 0
    /\ episode_state.current_best_progress_fraction = 0
    /\ episode_state.current_crashes = 0

\* The parts of the episode resources only the end of an episode changes.
EpisodeRecord(st) ==
    << st.current_episode, st.last_end_reason, st.last_episode_return,
       st.last_episode_best_progress_fraction, st.last_episode_crashes >>

-----------------------------------------------------------------------------
(* The fixed tick: every episode ends by its timeout                       *)

\* The tick count of the episode is at the timeout: ticks x dt >= timeout_s.
AtTimeout(ticks_in_episode) ==
    ticks_in_episode * DeltaMicros >= EpisodeConfigDefault.timeout_s

\* C30: with a track and a car present, an episode ends no later than the
\* first tick at which ticks_in_episode x dt >= timeout_s: the tick counter,
\* which counts the ticks of the episode from 1, is at most
\* ceil(timeout_s / dt) when episode_loop_system judges the tick, a tick
\* judged at the timeout ends the episode, the counter an episode carries
\* from one tick to the next is below the timeout, and current_crashes is 0
\* at the start of every tick and whenever a system is not running.
C30_EpisodeEndsByTimeout ==
    entity # <<>> =>
       /\ episode_state.ticks_in_episode < TimeoutTicks
       /\ ~AtTimeout(episode_state.ticks_in_episode)
       /\ episode_state.current_crashes = 0
       /\ (sim.tick > 0 =>
             /\ EpisodeBefore.current_crashes = 0
             /\ EpisodeBefore.ticks_in_episode < TimeoutTicks)
       /\ ((sim.tick > 0 /\ HasRun("episode_loop_system")) =>
             /\ sim.judged.final.ticks_in_episode
                   = EpisodeBefore.ticks_in_episode + 1
             /\ sim.judged.final.ticks_in_episode >= 1
             /\ sim.judged.final.ticks_in_episode <= TimeoutTicks
             /\ (AtTimeout(sim.judged.final.ticks_in_episode)
                    => /\ sim.judged.reason # NoReason
                       /\ episode_state.ticks_in_episode = 0)
             /\ (WrittenThisTick > 0
                    => /\ sim.judged.reason = "Crash"
                       /\ sim.judged.final.current_crashes = 1)
             /\ (sim.judged.reason = NoReason
                    => episode_state.ticks_in_episode
                          = EpisodeBefore.ticks_in_episode + 1))

\* An episode that neither crashed nor completed a lap reached its
\* ceil(timeout_s / dt)-th tick and was ended there by the timeout.
C30_Witness ==
    /\ entity # <<>>
    /\ sim.tick > 0
    /\ HasRun("episode_loop_system")
    /\ sim.judged.final.ticks_in_episode = TimeoutTicks
    /\ ~AtTimeout(EpisodeBefore.ticks_in_episode)
    /\ sim.judged.reason = "Timeout"
    /\ episode_state.ticks_in_episode = 0
    /\ episode_state.current_episode = EpisodeBefore.current_episode + 1

====
